---- MODULE Spec2Model ----
(***************************************************************************)
(* Image Maker Studio: layer compositor, reducer and interaction state     *)
(* machine (main.js, modules.js, webglRenderer.js).                        *)
(*                                                                         *)
(* World coordinates are integers.  Every image is square and opaque, but  *)
(* for the asset whose middle half is transparent; the hit test reads the  *)
(* alpha the asset was decoded with, not the strokes of the eraser.  A     *)
(* non-empty text block measures 2*fontSize x fontSize; rotations are      *)
(* multiples of 90 degrees.  Fractions (propX, propY, propSize) are kept   *)
(* as reduced rationals.  The scale and the pan of the view are fixed-     *)
(* point numbers in ten-thousandths (of 1 and of a pixel), rounded to the  *)
(* nearest; layer gestures are explored with the view at rest at scale 1.  *)
(* One pointer button is down at a time and the eraser is in 'erase' mode,  *)
(* with a brush one pixel of mipmaps[0] wide.                               *)
(***************************************************************************)
EXTENDS Integers, Sequences, FiniteSets, TLC

VARIABLES
    layers,            \* state.canvasState.layers, index 1 is the topmost layer
    activeLayerId,     \* state.activeLayerId, 0 is null
    canvasState,       \* the non-layer fields of state.canvasState
    dom,               \* dom.movieCanvas width and height
    movieInteraction,  \* state.movieInteraction
    scrubbingMode,     \* state.scrubbingMode
    animationFrameId,  \* state.animationFrameId, 0 is null
    isPanning,         \* state.isPanning
    isEraserArmed,     \* state.isEraserArmed
    staticCaches,      \* staticBackgroundCacheCanvas / staticForegroundCacheCanvas
    screen,            \* what the last drawFrame left on dom.movieCanvas
    nextId,            \* source of fresh layer ids
    pending,           \* asynchronous work in flight
    socket,            \* collaborationManager.socket is open
    stepLog,           \* what the last handler did: dispatches, broadcasts, throws, toast
    glScene,           \* the layers the last WebGLRenderer.renderScene drew, bottom first
    viewState,         \* state.viewState: the displayed scale and pan
    targetViewState,   \* state.targetViewState: where the view animation is heading
    isAnimatingView,   \* state.isAnimatingView: a view animation frame is requested
    zoomSnapTimeout,   \* state.zoomSnapTimeout: the id of the snap-to-1 timer, 0 is null
    assetStore,        \* the 'assets' object store of IndexedDB, oldest createdAt first
    projectStore,      \* the 'projects' object store of IndexedDB
    autosave,          \* the item 'ims-autosave-project' of localStorage
    upload,             \* the batch handleFileUpload is working through
    startup,           \* where init stands: its setup, its timers and what it has shown
    mipmapRun,         \* the call of generateMipmaps under way: its arguments, its locals
                       \* and where it stands
    timeouts,          \* the timers of the page that have not fired, state.toastTimeout
                       \* and dom.toastEl
    animatedRender     \* state.isAnimatingRender, the frames animationRenderLoop has
                       \* requested, Date.now() and the createdAt of the layers, by id

vars == << layers, activeLayerId, canvasState, dom, movieInteraction, scrubbingMode,
           animationFrameId, isPanning, isEraserArmed, staticCaches, screen, nextId,
           pending, socket, stepLog, glScene, viewState, targetViewState,
           isAnimatingView, zoomSnapTimeout, assetStore, projectStore, autosave, upload,
           startup, mipmapRun, timeouts, animatedRender >>

-----------------------------------------------------------------------------
(* Bounds of the exploration *)

MaxLayers == 2
MaxIds == 2
MaxPix == 2
MaxSize == 84
MaxFontSize == 42
MaxDrift == 21
MaxStack == 3
MaxBatch == 2
\* projects the library holds at most
MaxProjects == 1
\* the highest reference count a load may start from
MaxReferences == 2
\* the most records the library holds when files are added to it
MaxRecords == 2
\* the contentVersion up to which the eraser is taken to a layer
MaxVersion == 2
\* the milliseconds between two readings of the clock
FrameTime == 100
\* the latest reading of the clock
MaxNow == 600
\* the widest and highest picture mipmaps are made of
MaxSourceSize == 3000

(* Constants of the program *)

DRAG_THRESHOLD == 3
DESIRED_HIT_RADIUS_ON_SCREEN == 16
ROTATION_HANDLE_SCREEN_OFFSET == 26
MIN_IMAGE_SIZE == 20
MIN_FONT_SIZE == 10
DUPLICATE_OFFSET == 20
MAX_CANVAS_WIDTH == 1920
ALIGN_THRESHOLD == 20
\* the quota of the asset store, 500 * 1024 * 1024 bytes, in megabytes
QUOTA_MEGABYTES == 500
\* validFiles.slice(0, 5)
MAX_UPLOAD == 5
\* epsilon of the view animation, 0.001, in ten-thousandths
epsilon == 10
\* 1.0, and one pixel, in ten-thousandths
Unit == 1000 * epsilon
OVERVIEW_SCALE == Unit \div 2

(* Input domains *)

\* background images: element id -> hash and natural size
Backgrounds == { [element |-> 1, hash |-> 1, w |-> 100, h |-> 100],
                 [element |-> 2, hash |-> 2, w |-> 200, h |-> 200] }
\* a background that is wider than it is high
WideBackgrounds == { [element |-> 3, hash |-> 3, w |-> 160, h |-> 90] }
\* the same picture at twice the resolution
DoubleBackgrounds == { [element |-> 4, hash |-> 4, w |-> 320, h |-> 180] }
\* a background of 800 by 600
PhotoBackgrounds == { [element |-> 5, hash |-> 5, w |-> 800, h |-> 600] }
\* where a drag takes the pointer, relative to the middle of the canvas
PhotoTargets == {<< 2, 0 >>, << 25, 0 >>, << 50, 0 >>, << 100, 0 >>, << 50, 30 >>, << -50, 0 >>}
\* where a long drag takes the layer's centre, relative to the right edge and
\* the middle height of the canvas
EdgeTargets == { <<-10, 0>>, <<-60, 0>> }
\* how far along the diagonal from the anchor to the grabbed corner the pointer
\* is taken during a resize, in quarters
ResizeQuarters == {1, 2, 4, 6}
\* decoded image assets: hash and mipmaps[0].width
Assets == { [hash |-> 7, w |-> 64] }
\* a decoded asset with an opaque rim around a transparent middle half
HollowAssets == { [hash |-> 8, w |-> 64] }
\* values the sliders can give to a filter property (tenths)
OpacityValues == {5, 10}
TextValues == {"", "New Text"}
\* where a drag step takes the layer's centre, relative to the canvas centre
DragTargets == { <<20, 20>>, <<1, 1>> }
Thrown == {"none", "stopRenderLoop", "finalise"}

-----------------------------------------------------------------------------
(* Arithmetic helpers *)

Abs(a) == IF a < 0 THEN -a ELSE a
Min(a, b) == IF a < b THEN a ELSE b
Max(a, b) == IF a > b THEN a ELSE b

RECURSIVE Gcd(_, _)
Gcd(a, b) == IF b = 0 THEN a ELSE Gcd(b, a % b)

\* the fraction n/d in lowest terms (d > 0)
Rat(n, d) == LET g == Gcd(Abs(n), d) IN
             IF g = 0 THEN [n |-> 0, d |-> 1] ELSE [n |-> n \div g, d |-> d \div g]

\* Math.sqrt, exact on the canvases whose area is a square and rounded down
\* on the others
Sqrt(v) == CHOOSE r \in 0..v : r * r <= v /\ v < (r + 1) * (r + 1)

\* Math.cos / Math.sin of a multiple of 90 degrees
Cos(deg) == LET a == deg % 360 IN IF a = 0 THEN 1 ELSE IF a = 180 THEN -1 ELSE 0
Sin(deg) == LET a == deg % 360 IN IF a = 90 THEN 1 ELSE IF a = 270 THEN -1 ELSE 0

\* Math.atan2(dy, dx) * 180 / Math.PI on the axis directions
Atan2Deg(dy, dx) ==
    IF dy = 0 /\ dx > 0 THEN 0
    ELSE IF dx = 0 /\ dy > 0 THEN 90
    ELSE IF dy = 0 /\ dx < 0 THEN 180
    ELSE -90

Reverse(s) == [i \in 1..Len(s) |-> s[Len(s) + 1 - i]]

\* Array.prototype.findIndex, 1-based, 0 when absent
FindIndex(ls, id) ==
    LET hits == { i \in 1..Len(ls) : ls[i].id = id } IN
    IF hits = {} THEN 0 ELSE CHOOSE i \in hits : \A j \in hits : i <= j

-----------------------------------------------------------------------------
(* Layers *)

NoCanvas == [exists |-> FALSE, w |-> 0, opacity |-> 0, shadow |-> FALSE, border |-> FALSE,
             text |-> "", fontSize |-> 0, pix |-> 0]

\* Math.sqrt(canvas.width * canvas.height)
MasterDim(d) == Sqrt(d.w * d.h)

\* the layer object createLayerFromSrc returns for a fully opaque image
ImageLayer(id, asset, d) ==
    LET finalSize == Max(MIN_IMAGE_SIZE, (Min(d.w, d.h) * 4) \div 10) IN
    [ id |-> id, type |-> "image", originalHash |-> asset.hash,
      x |-> d.w \div 2, y |-> d.h \div 2, size |-> finalSize, fontSize |-> 0, rot |-> 0,
      opacity |-> 10, shadow |-> [enabled |-> FALSE], border |-> [enabled |-> FALSE],
      text |-> "", assetW |-> asset.w, mipW |-> asset.w, pix |-> 0, contentVersion |-> 0,
      contentFrame |-> [x |-> 0, width |-> asset.w],
      isOptimized |-> FALSE, isLocked |-> FALSE,
      cache |-> [canvas |-> NoCanvas, isValid |-> FALSE],
      propX |-> Rat(d.w \div 2, d.w), propY |-> Rat(d.h \div 2, d.h),
      propSize |-> Rat(finalSize, MasterDim(d)), alignX |-> "", alignY |-> "" ]

\* the layer object addTextLayer builds
TextLayer(id, d) ==
    LET newFontSize == Max(20, (Min(d.w, d.h) * 15) \div 100) IN
    [ id |-> id, type |-> "text", originalHash |-> 0,
      x |-> d.w \div 2, y |-> d.h \div 2, size |-> 0, fontSize |-> newFontSize, rot |-> 0,
      opacity |-> 10, shadow |-> [enabled |-> FALSE], border |-> [enabled |-> FALSE],
      text |-> "New Text", assetW |-> 0, mipW |-> 0, pix |-> 0, contentVersion |-> 0,
      contentFrame |-> [x |-> 0, width |-> 0],
      isOptimized |-> FALSE, isLocked |-> FALSE,
      cache |-> [canvas |-> NoCanvas, isValid |-> FALSE],
      propX |-> Rat(d.w \div 2, d.w), propY |-> Rat(d.h \div 2, d.h),
      propSize |-> Rat(newFontSize, MasterDim(d)), alignX |-> "", alignY |-> "" ]

\* getTextBlockMetrics: maxWidth and totalHeight of a one-line block
TextBlockWidth(text, fontSize) == IF text = "" THEN 0 ELSE 2 * fontSize
TextBlockHeight(text, fontSize) == fontSize

\* padding updateLayerCache adds around the content
Padding(l) ==
    (IF l.shadow.enabled THEN 30 ELSE 0)
    + (IF l.type = "image" /\ l.border.enabled THEN 8 ELSE 0)

\* the bitmap updateLayerCache paints from the layer's present fields
Render(l, contentWidth) ==
    [ exists |-> TRUE, w |-> contentWidth + Padding(l) * 2, opacity |-> l.opacity,
      shadow |-> l.shadow.enabled, border |-> (l.type = "image" /\ l.border.enabled),
      text |-> l.text, fontSize |-> l.fontSize, pix |-> l.pix ]

updateLayerCache(l) ==
    IF l.type = "image" /\ l.mipW = 0
    THEN [l EXCEPT !.cache.isValid = FALSE]
    ELSE LET contentWidth == IF l.type = "image" THEN l.mipW
                             ELSE TextBlockWidth(l.text, l.fontSize) IN
         IF contentWidth <= 0
         THEN [l EXCEPT !.cache.canvas.w = 0, !.cache.isValid = TRUE]
         ELSE [l EXCEPT !.cache = [canvas |-> Render(l, contentWidth), isValid |-> TRUE]]

\* a drawLayers that rebuilds only a cache that has no bitmap yet
EnsureCacheIfMissing(l) == IF ~l.cache.canvas.exists THEN updateLayerCache(l) ELSE l

\* drawLayers, the rebuild of a stale cache before the blit
EnsureCache(l) == IF ~l.cache.isValid THEN updateLayerCache(l) ELSE l

\* one ctx.drawImage(l.cache.canvas, ...) under the layer's transform
Blit(l) ==
    [ id |-> l.id, x |-> l.x, y |-> l.y, rot |-> l.rot,
      scale |-> IF l.type = "image" /\ l.mipW > 0 THEN Rat(l.size, l.mipW) ELSE Rat(1, 1),
      canvas |-> l.cache.canvas, isValid |-> l.cache.isValid ]

\* drawLayers over the layers at positions idxs of ls (array order), from the
\* last of them down to the first; the cache rebuilds land in the layer objects
RECURSIVE DrawLayersFrom(_, _, _, _)
DrawLayersFrom(ls, idxs, k, blits) ==
    IF k = 0 THEN [layers |-> ls, blits |-> blits]
    ELSE LET i == idxs[k]
             l == EnsureCache(ls[i])
             b == IF l.cache.canvas.exists /\ l.cache.canvas.w > 0 THEN << Blit(l) >> ELSE << >>
         IN DrawLayersFrom([ls EXCEPT ![i] = l], idxs, k - 1, blits \o b)

drawLayers(ls, idxs) == DrawLayersFrom(ls, idxs, Len(idxs), << >>)

Indices(from, to) == [i \in 1..(to - from + 1) |-> from + i - 1]

\* WebGLRenderer.renderScene: the layers it draws, bottom first
RECURSIVE RenderSceneFrom(_, _, _)
RenderSceneFrom(ls, k, drawn) ==
    IF k = 0 THEN drawn
    ELSE LET layer == ls[k]
             \* layer.asset for images, layer.textureCanvas (never assigned) for text
             assetWidth == IF layer.type = "image" THEN layer.assetW ELSE 0
         IN RenderSceneFrom(ls, k - 1, IF assetWidth > 0 THEN Append(drawn, layer.id) ELSE drawn)

renderScene(ls) == RenderSceneFrom(ls, Len(ls), << >>)

-----------------------------------------------------------------------------
(* The reducer (modules.js) *)

RemoveAt(s, i) == [k \in 1..(Len(s) - 1) |-> IF k < i THEN s[k] ELSE s[k + 1]]
InsertAt(s, j, e) == [k \in 1..(Len(s) + 1) |-> IF k < j THEN s[k] ELSE IF k = j THEN e ELSE s[k - 1]]

\* { ...layer, ...transformProps }
Merge(l, payload) ==
    [k \in DOMAIN l |-> IF k \in (DOMAIN payload \ {"layerId"}) THEN payload[k] ELSE l[k]]

Invalidated(l) == [l EXCEPT !.cache.isValid = FALSE]

\* a property change that leaves the cache flagged valid
ChangedPropertyKeepingCache(l, type, property, value) ==
    IF type \in {"LAYER_SHADOW_PREVIEW_CHANGED", "LAYER_SHADOW_CHANGED"}
    THEN [l EXCEPT !.shadow = [l.shadow EXCEPT ![property] = value]]
    ELSE IF type \in {"LAYER_BORDER_PREVIEW_CHANGED", "LAYER_BORDER_CHANGED"}
    THEN [l EXCEPT !.border = [l.border EXCEPT ![property] = value]]
    ELSE [l EXCEPT ![property] = value]

\* the three branches of a property change on one layer
ChangedProperty(l, type, property, value) ==
    IF type \in {"LAYER_SHADOW_PREVIEW_CHANGED", "LAYER_SHADOW_CHANGED"}
    THEN Invalidated([l EXCEPT !.shadow = [l.shadow EXCEPT ![property] = value]])
    ELSE IF type \in {"LAYER_BORDER_PREVIEW_CHANGED", "LAYER_BORDER_CHANGED"}
    THEN Invalidated([l EXCEPT !.border = [l.border EXCEPT ![property] = value]])
    ELSE Invalidated([l EXCEPT ![property] = value])

PropertyActionTypes ==
    { "LAYER_PROPERTY_PREVIEW_CHANGED", "LAYER_SHADOW_PREVIEW_CHANGED", "LAYER_BORDER_PREVIEW_CHANGED",
      "LAYER_PROPERTY_CHANGED", "LAYER_SHADOW_CHANGED", "LAYER_BORDER_CHANGED" }

\* a reorder that exchanges the layers at i and i + delta
ReorderedBySwap(ls, layerId, delta) ==
    LET i == FindIndex(ls, layerId)
        j == i + delta
    IN IF i = 0 \/ j < 1 \/ j > Len(ls) THEN ls
       ELSE [ls EXCEPT ![i] = ls[j], ![j] = ls[i]]

\* case 'LAYER_REORDERED': splice the layer out of i and back in at i + delta
Reordered(ls, layerId, delta) ==
    LET i == FindIndex(ls, layerId)
        j == i + delta
    IN IF i = 0 THEN ls
       ELSE IF j < 1 \/ j > Len(ls) THEN ls
       ELSE InsertAt(RemoveAt(ls, i), j, ls[i])

\* what the layers.map(...) cases of the reducer make of the layer they match
MappedLayer(l, action) ==
    LET p == action.payload IN
    CASE action.type \in PropertyActionTypes ->
            ChangedProperty(l, action.type, p.property, p.value)
      [] action.type = "LAYER_TRANSFORMED" -> Merge(l, p)
      [] action.type = "LAYER_OPTIMIZATION_COMPLETE" ->
            Invalidated([l EXCEPT !.assetW = p.newProxyW, !.contentFrame = p.newContentFrame,
                                  !.isOptimized = p.wasOptimized])
      [] action.type = "INVALIDATE_LAYER_CACHE" -> Invalidated(l)

LayerMapTypes ==
    PropertyActionTypes \cup
    { "LAYER_TRANSFORMED", "LAYER_OPTIMIZATION_COMPLETE", "INVALIDATE_LAYER_CACHE" }

\* a reducer whose layers.map cases rewrite every layer of the list
layersReducerMappingAll(ls, action) ==
    LET p == action.payload IN
    CASE action.type = "LAYER_ADDED" -> << p.newLayer >> \o ls
      [] action.type = "LAYER_DELETED" -> SelectSeq(ls, LAMBDA l : l.id # p.layerId)
      [] action.type = "LAYER_REORDERED" -> Reordered(ls, p.layerId, p.delta)
      [] action.type \in LayerMapTypes -> [i \in 1..Len(ls) |-> MappedLayer(ls[i], action)]
      [] OTHER -> ls

layersReducer(ls, action) ==
    LET p == action.payload IN
    CASE action.type = "LAYER_ADDED" -> << p.newLayer >> \o ls
      [] action.type = "LAYER_DELETED" -> SelectSeq(ls, LAMBDA l : l.id # p.layerId)
      [] action.type = "LAYER_REORDERED" -> Reordered(ls, p.layerId, p.delta)
      [] action.type \in LayerMapTypes ->
            [i \in 1..Len(ls) |-> IF ls[i].id = p.layerId THEN MappedLayer(ls[i], action)
                                  ELSE ls[i]]
      [] OTHER -> ls

\* the non-layer part of canvasStateReducer
canvasStateReducer(cs, action) ==
    CASE action.type = "BACKGROUND_CHANGED" ->
            [cs EXCEPT !.backgroundHash = action.payload.backgroundHash, !.bgBrightness = 10,
                       !.projectRotation = 0, !.backgroundFlipX = FALSE]
      [] action.type \in {"BACKGROUND_FILTER_PREVIEW_CHANGED", "BACKGROUND_FILTER_CHANGED"} ->
            [cs EXCEPT ![action.payload.property] = action.payload.value]
      [] action.type = "PROJECT_ROTATED" ->
            [cs EXCEPT !.projectRotation = (cs.projectRotation + 90) % 360]
      [] action.type = "TOGGLE_BACKGROUND_FLIP" ->
            [cs EXCEPT !.backgroundFlipX = ~cs.backgroundFlipX]
      [] action.type = "RESET_PROJECT_ROTATION" ->
            [cs EXCEPT !.projectRotation = 0]
      [] OTHER -> cs

ClearedCanvasState ==
    [currentProjectId |-> 0, backgroundElement |-> 0, backgroundHash |-> 0,
     projectRotation |-> 0, backgroundFlipX |-> FALSE, bgBrightness |-> 10]

\* the cross-slice part of rootReducer, after canvasStateReducer has run
CrossSlice(st, newState, action) ==
    CASE action.type = "SELECT_LAYER" ->
            [newState EXCEPT !.activeLayerId = action.payload.layerId]
      [] action.type = "LAYER_ADDED" ->
            [newState EXCEPT !.activeLayerId = action.payload.newLayer.id]
      [] action.type = "LAYER_DELETED" ->
            IF st.activeLayerId = action.payload.layerId
            THEN [newState EXCEPT !.activeLayerId = 0]
            ELSE newState
      [] action.type = "CLEAR_CANVAS" ->
            [layers |-> << >>, activeLayerId |-> 0, canvasState |-> ClearedCanvasState]
      [] OTHER -> newState

\* st is the part of this.state the reducer works on
rootReducer(st, action) ==
    CrossSlice(st, [st EXCEPT !.layers = layersReducer(st.layers, action),
                              !.canvasState = canvasStateReducer(st.canvasState, action)], action)

ReducerState(a) ==
    [layers |-> a.layers, activeLayerId |-> a.activeLayerId, canvasState |-> a.canvasState]

-----------------------------------------------------------------------------
(* The application object: handlers are functions from app state to app state *)

Cur ==
    [ layers |-> layers, activeLayerId |-> activeLayerId, canvasState |-> canvasState,
      dom |-> dom, movieInteraction |-> movieInteraction, scrubbingMode |-> scrubbingMode,
      animationFrameId |-> animationFrameId, isPanning |-> isPanning,
      isEraserArmed |-> isEraserArmed, staticCaches |-> staticCaches, screen |-> screen,
      nextId |-> nextId, pending |-> pending, socket |-> socket, stepLog |-> stepLog,
      glScene |-> glScene, viewState |-> viewState, targetViewState |-> targetViewState,
      isAnimatingView |-> isAnimatingView, zoomSnapTimeout |-> zoomSnapTimeout,
      assetStore |-> assetStore, projectStore |-> projectStore, autosave |-> autosave,
      upload |-> upload, startup |-> startup, mipmapRun |-> mipmapRun,
      timeouts |-> timeouts,
      animatedRender |-> animatedRender ]

Install(a) ==
    /\ layers' = a.layers
    /\ activeLayerId' = a.activeLayerId
    /\ canvasState' = a.canvasState
    /\ dom' = a.dom
    /\ movieInteraction' = a.movieInteraction
    /\ scrubbingMode' = a.scrubbingMode
    /\ animationFrameId' = a.animationFrameId
    /\ isPanning' = a.isPanning
    /\ isEraserArmed' = a.isEraserArmed
    /\ staticCaches' = a.staticCaches
    /\ screen' = a.screen
    /\ nextId' = a.nextId
    /\ pending' = a.pending
    /\ socket' = a.socket
    /\ stepLog' = a.stepLog
    /\ glScene' = a.glScene
    /\ viewState' = a.viewState
    /\ targetViewState' = a.targetViewState
    /\ isAnimatingView' = a.isAnimatingView
    /\ zoomSnapTimeout' = a.zoomSnapTimeout
    /\ assetStore' = a.assetStore
    /\ projectStore' = a.projectStore
    /\ autosave' = a.autosave
    /\ upload' = a.upload
    /\ startup' = a.startup
    /\ mipmapRun' = a.mipmapRun
    /\ timeouts' = a.timeouts
    /\ animatedRender' = a.animatedRender

\* the app state at the entry of handler op
Enter(op) == [Cur EXCEPT !.stepLog = [op |-> op, dispatched |-> << >>, threw |-> FALSE, toast |-> ""]]

NoMovement == << 0, 0 >>
NoPoint == [defined |-> FALSE, x |-> 0, y |-> 0]
Point(x, y) == [defined |-> TRUE, x |-> x, y |-> y]
NoSnapshot == [x |-> 0, y |-> 0, size |-> 0, fontSize |-> 0, rot |-> 0]

\* { active: false, didDrag: false }
IdleInteraction ==
    [ active |-> FALSE, type |-> "none", layerId |-> 0, didDrag |-> FALSE,
      startClickPoint |-> NoPoint, offsetX |-> 0, offsetY |-> 0, startX |-> 0, startY |-> 0,
      handle |-> "", initialState |-> NoSnapshot, anchorPoint |-> NoPoint,
      startHandlePoint |-> NoPoint, didChangeContent |-> FALSE ]

getActiveIndexOrTop(a) ==
    IF FindIndex(a.layers, a.activeLayerId) = 0 /\ a.layers # << >> THEN 1
    ELSE FindIndex(a.layers, a.activeLayerId)

getActiveIndex(a) == FindIndex(a.layers, a.activeLayerId)

updateTransformCaches(a) ==
    LET activeIndex == getActiveIndex(a) IN
    IF activeIndex = 0
    THEN [a EXCEPT !.staticCaches = [bg |-> << >>, fg |-> << >>]]
    ELSE LET bg == drawLayers(a.layers, Indices(activeIndex + 1, Len(a.layers)))
             fg == drawLayers(bg.layers, Indices(1, activeIndex - 1))
         IN [a EXCEPT !.layers = fg.layers,
                      !.staticCaches = [bg |-> bg.blits, fg |-> fg.blits]]

drawFrame(a) ==
    IF a.canvasState.backgroundElement = 0
    THEN [a EXCEPT !.screen = << >>]
    ELSE IF a.scrubbingMode = "transform"
    THEN LET activeIndex == getActiveIndex(a)
             act == IF activeIndex # 0 THEN drawLayers(a.layers, << activeIndex >>)
                    ELSE [layers |-> a.layers, blits |-> << >>]
         IN [a EXCEPT !.layers = act.layers,
                      !.screen = a.staticCaches.bg \o act.blits \o a.staticCaches.fg]
    ELSE LET all == drawLayers(a.layers, Indices(1, Len(a.layers)))
         IN [a EXCEPT !.layers = all.layers, !.screen = all.blits]

\* no call of generateMipmaps has been made
NoMipmapRun ==
    [ at |-> "idle", sourceWidth |-> 0, sourceHeight |-> 0, maxDimension |-> 0,
      mipWidth |-> 0, mipHeight |-> 0, mipmaps |-> << >> ]

\* Math.round(size * Math.min(maxDimension / sourceWidth, maxDimension / sourceHeight, 1))
ScaledToFit(size, sourceWidth, sourceHeight, maxDimension) ==
    LET longest == Max(sourceWidth, sourceHeight) IN
    IF longest <= maxDimension THEN size
    ELSE (2 * size * maxDimension + longest) \div (2 * longest)

\* a level of half the width and half the height, however small
HalvedLevelUnclamped(mipWidth, mipHeight) ==
    [width |-> mipWidth \div 2, height |-> mipHeight \div 2]

\* Math.max(32, Math.floor(mipWidth / 2)) by Math.max(32, Math.floor(mipHeight / 2))
HalvedLevel(mipWidth, mipHeight) ==
    [width |-> Max(32, mipWidth \div 2), height |-> Max(32, mipHeight \div 2)]

\* generateMipmaps up to the test of its loop: the base level is pushed
generateMipmapsBegun(a, sourceWidth, sourceHeight, maxDimension) ==
    LET mipWidth == ScaledToFit(sourceWidth, sourceWidth, sourceHeight, maxDimension)
        mipHeight == ScaledToFit(sourceHeight, sourceWidth, sourceHeight, maxDimension)
    IN [a EXCEPT !.mipmapRun =
          [ at |-> "while", sourceWidth |-> sourceWidth, sourceHeight |-> sourceHeight,
            maxDimension |-> maxDimension, mipWidth |-> mipWidth, mipHeight |-> mipHeight,
            mipmaps |-> << [width |-> mipWidth, height |-> mipHeight] >> ]]

\* one test of while (mipWidth > 32 && mipHeight > 32), with the body of the
\* loop or the return
generateMipmapsLoop(a) ==
    LET r == a.mipmapRun
        level == HalvedLevel(r.mipWidth, r.mipHeight)
    IN IF r.mipWidth > 32 /\ r.mipHeight > 32
       THEN [a EXCEPT !.mipmapRun.mipWidth = level.width, !.mipmapRun.mipHeight = level.height,
                      !.mipmapRun.mipmaps = Append(@, level)]
       ELSE [a EXCEPT !.mipmapRun.at = "returned"]

\* config.FADE_IN_DURATION
FADE_IN_DURATION == 300

\* createdAt: Date.now() in the layer object with this id
WithCreatedAt(a, id, t) ==
    [a EXCEPT !.animatedRender.createdAt =
        [k \in DOMAIN @ \cup {id} |-> IF k = id THEN t ELSE @[k]]]

\* layers.some(l => (Date.now() - l.createdAt) < FADE_IN_DURATION)
StillAnimating(a) ==
    \E i \in 1..Len(a.layers) :
        /\ a.layers[i].id \in DOMAIN a.animatedRender.createdAt
        /\ a.animatedRender.now - a.animatedRender.createdAt[a.layers[i].id] < FADE_IN_DURATION

\* a loop that asks for the next frame whatever the age of the layers
animationRenderLoopUnending(a) ==
    IF ~a.animatedRender.isAnimatingRender THEN a
    ELSE [drawFrame(a) EXCEPT !.animatedRender.frames = @ + 1,
                              !.animatedRender.lastFrame = "animated"]

\* lastFrame is what the call did: a frame of the animation, the final frame,
\* or the end of the loop with no frame drawn
animationRenderLoop(a) ==
    IF ~a.animatedRender.isAnimatingRender THEN a
    ELSE IF StillAnimating(a)
    THEN [drawFrame(a) EXCEPT !.animatedRender.frames = @ + 1,
                              !.animatedRender.lastFrame = "animated"]
    ELSE LET a1 == [a EXCEPT !.animatedRender.isAnimatingRender = FALSE] IN
         IF ~a1.movieInteraction.active
         THEN [drawFrame(a1) EXCEPT !.animatedRender.lastFrame = "final"]
         ELSE [a1 EXCEPT !.animatedRender.lastFrame = "undrawn"]

triggerAnimatedRender(a) ==
    IF a.animatedRender.isAnimatingRender \/ a.movieInteraction.active THEN a
    ELSE animationRenderLoop([a EXCEPT !.animatedRender.isAnimatingRender = TRUE])

startRenderLoop(a) ==
    IF a.animationFrameId # 0 THEN a
    ELSE [drawFrame(a) EXCEPT !.animationFrameId = 1]

stopRenderLoop(a) == drawFrame([a EXCEPT !.animationFrameId = 0])

deactivateEraser(a) ==
    IF ~a.isEraserArmed THEN a ELSE drawFrame([a EXCEPT !.isEraserArmed = FALSE])

clearCanvas(a) ==
    LET a1 == [a EXCEPT !.canvasState = ClearedCanvasState, !.layers = << >>,
                        !.activeLayerId = 0, !.autosave = << >>]
    IN drawFrame([deactivateEraser(a1) EXCEPT !.screen = << >>])

NoLayer == [id |-> 0]
Job(kind, id, hash, layer) == [kind |-> kind, id |-> id, hash |-> hash, layer |-> layer]

\* a falsy hash clears; a hash that is not in the library is reported in the
\* catch block; otherwise the image is in flight
loadAndSetBackgroundFromHash(a, hash) ==
    IF hash = 0 THEN clearCanvas(a)
    ELSE IF \A i \in 1..Len(a.assetStore) : a.assetStore[i].hash # hash
    THEN [a EXCEPT !.stepLog.toast = "Error: Could not sync background."]
    ELSE [a EXCEPT !.pending = @ \cup { Job("bgFetch", 0, hash, NoLayer) }]

\* the tail of dispatch: the remote follow-up and the redraw
AfterReduce(a1, oldHash, isRemote) ==
    IF isRemote /\ a1.canvasState.backgroundHash # oldHash
    THEN loadAndSetBackgroundFromHash(a1, a1.canvasState.backgroundHash)
    ELSE a1

DrawUnlessInteracting(a2) == IF ~a2.movieInteraction.active THEN drawFrame(a2) ELSE a2

WithReduced(a, newState, entry) ==
    [a EXCEPT !.stepLog.dispatched = Append(@, entry),
              !.layers = newState.layers,
              !.activeLayerId = newState.activeLayerId,
              !.canvasState = newState.canvasState]

dispatch(a, action, isRemote) ==
    DrawUnlessInteracting(AfterReduce(
        WithReduced(a, rootReducer(ReducerState(a), action),
                    [action |-> action, isRemote |-> isRemote, broadcast |-> (~isRemote /\ a.socket)]),
        a.canvasState.backgroundHash, isRemote))

Action(type, payload) == [type |-> type, payload |-> payload]

-----------------------------------------------------------------------------
(* Geometry and hit testing *)

getLayerMetrics(l) ==
    IF l.type = "image"
    THEN IF l.mipW = 0 THEN [dWidth |-> 0, dHeight |-> 0]
         ELSE [dWidth |-> l.size, dHeight |-> l.size]
    ELSE [dWidth |-> TextBlockWidth(l.text, l.fontSize),
          dHeight |-> TextBlockHeight(l.text, l.fontSize)]

\* a point of the layer's local frame in world coordinates
ToWorld(l, localX, localY) ==
    Point(l.x + (localX * Cos(l.rot) - localY * Sin(l.rot)),
          l.y + (localX * Sin(l.rot) + localY * Cos(l.rot)))

HandleNames == << "tl", "tr", "bl", "br" >>
OppositeHandle(h) == CASE h = "tl" -> "br" [] h = "tr" -> "bl" [] h = "bl" -> "tr" [] OTHER -> "tl"

HandleLocal(m, h) ==
    CASE h = "tl" -> << -(m.dWidth \div 2), -(m.dHeight \div 2) >>
      [] h = "tr" -> << m.dWidth \div 2, -(m.dHeight \div 2) >>
      [] h = "bl" -> << -(m.dWidth \div 2), m.dHeight \div 2 >>
      [] OTHER -> << m.dWidth \div 2, m.dHeight \div 2 >>

getHandleWorldPosition(l, h) ==
    LET m == getLayerMetrics(l) IN
    IF m.dWidth = 0 \/ m.dHeight = 0 THEN Point(l.x, l.y)
    ELSE ToWorld(l, HandleLocal(m, h)[1], HandleLocal(m, h)[2])

RotationHandlePosition(l) ==
    ToWorld(l, 0, -(getLayerMetrics(l).dHeight \div 2) - ROTATION_HANDLE_SCREEN_OFFSET)

\* Math.hypot(p - q) < radius
Within(p, q, radius) ==
    (p.x - q.x) * (p.x - q.x) + (p.y - q.y) * (p.y - q.y) < radius * radius

\* "" is null
getMovieHandleAtPoint(point, l) ==
    LET m == getLayerMetrics(l)
        hits == { i \in 1..4 : Within(point, getHandleWorldPosition(l, HandleNames[i]),
                                      DESIRED_HIT_RADIUS_ON_SCREEN) }
    IN IF m.dWidth = 0 \/ m.dHeight = 0 THEN ""
       ELSE IF Within(point, RotationHandlePosition(l), DESIRED_HIT_RADIUS_ON_SCREEN) THEN "rotate"
       ELSE IF hits = {} THEN ""
       ELSE HandleNames[CHOOSE i \in hits : \A j \in hits : i <= j]

isPointInMovieLayer(point, l) ==
    LET m == getLayerMetrics(l)
        dx == point.x - l.x
        dy == point.y - l.y
        localX == dx * Cos(-l.rot) - dy * Sin(-l.rot)
        localY == dx * Sin(-l.rot) + dy * Cos(-l.rot)
    IN IF m.dWidth = 0 THEN FALSE
       ELSE 2 * Abs(localX) < m.dWidth /\ 2 * Abs(localY) < m.dHeight

\* pixelData[3] > 10 at a pixel of mipmaps[0]
AlphaAbove10(l, proxyX, proxyY) ==
    IF l.originalHash \in { asset.hash : asset \in HollowAssets }
    THEN ~(/\ 4 * proxyX >= l.mipW /\ 4 * proxyX < 3 * l.mipW
           /\ 4 * proxyY >= l.mipW /\ 4 * proxyY < 3 * l.mipW)
    ELSE TRUE

isPixelOpaqueAtPoint(l, point) ==
    LET dx == point.x - l.x
        dy == point.y - l.y
        localX == dx * Cos(-l.rot) - dy * Sin(-l.rot)
        localY == dx * Sin(-l.rot) + dy * Cos(-l.rot)
        \* Math.floor((local + layerRenderWidth / 2) * assetWidth / layerRenderWidth)
        proxyX == ((2 * localX + l.size) * l.mipW) \div (2 * l.size)
        proxyY == ((2 * localY + l.size) * l.mipW) \div (2 * l.size)
    IN IF l.type # "image" \/ l.mipW = 0 THEN TRUE
       ELSE IF proxyX < 0 \/ proxyX >= l.mipW \/ proxyY < 0 \/ proxyY >= l.mipW THEN FALSE
       ELSE AlphaAbove10(l, proxyX, proxyY)

\* a hit test that stops at the first bounding box
FirstBoxFrom(ls, point, k, topBoundingBoxLayer) ==
    LET hits == { i \in k..Len(ls) : isPointInMovieLayer(point, ls[i]) } IN
    IF hits = {} THEN 0 ELSE CHOOSE i \in hits : \A j \in hits : i <= j

\* for (const layer of layers): the first layer whose box holds the point and
\* whose pixel there is opaque, else the first whose box holds the point
RECURSIVE HitLoopFrom(_, _, _, _)
HitLoopFrom(ls, point, k, topBoundingBoxLayer) ==
    IF k > Len(ls) THEN topBoundingBoxLayer
    ELSE IF isPointInMovieLayer(point, ls[k])
    THEN IF isPixelOpaqueAtPoint(ls[k], point) THEN k
         ELSE HitLoopFrom(ls, point, k + 1, IF topBoundingBoxLayer = 0 THEN k ELSE topBoundingBoxLayer)
    ELSE HitLoopFrom(ls, point, k + 1, topBoundingBoxLayer)

\* the loop of Start and End over the layers, top first: index of the layer to
\* select, 0 for none
LayerAtPoint(ls, point) == HitLoopFrom(ls, point, 1, 0)

\* getRotatedBoundingBox, all four values doubled
getRotatedBoundingBox(l) ==
    LET m == getLayerMetrics(l)
        xs == { cx * m.dWidth * Cos(l.rot) - cy * m.dHeight * Sin(l.rot) : cx \in {-1, 1}, cy \in {-1, 1} }
        ys == { cx * m.dWidth * Sin(l.rot) + cy * m.dHeight * Cos(l.rot) : cx \in {-1, 1}, cy \in {-1, 1} }
        lo(S) == CHOOSE v \in S : \A u \in S : v <= u
        hi(S) == CHOOSE v \in S : \A u \in S : v >= u
    IN IF m.dWidth = 0 \/ m.dHeight = 0
       THEN [left |-> 2 * l.x, top |-> 2 * l.y, right |-> 2 * l.x, bottom |-> 2 * l.y]
       ELSE [left |-> 2 * l.x + lo(xs), right |-> 2 * l.x + hi(xs),
             top |-> 2 * l.y + lo(ys), bottom |-> 2 * l.y + hi(ys)]

-----------------------------------------------------------------------------
(* The view: zoom, pan and their animation *)

ViewAtRest == [scale |-> Unit, pan |-> [x |-> 0, y |-> 0]]

\* a / d rounded to the nearest whole number, for d > 0
DivRound(a, d) == (2 * a + d) \div (2 * d)

\* v * n / d rounded to the nearest whole number, for d > 0 and n >= 0
MulDiv(v, n, d) == (v \div d) * n + DivRound((v % d) * n, d)

requestViewAnimation(a) == [a EXCEPT !.isAnimatingView = TRUE]

constrainPanBelowOne(a, panX, panY, scale) ==
    IF a.dom.w = 0 THEN [x |-> 0, y |-> 0]
    ELSE IF scale < Unit
    THEN [x |-> DivRound(a.dom.w * (Unit - scale), 2),
          y |-> DivRound(a.dom.h * (Unit - scale), 2)]
    ELSE [x |-> panX, y |-> panY]

constrainPan(a, panX, panY, scale) ==
    IF a.dom.w = 0 THEN [x |-> 0, y |-> 0]
    ELSE IF scale < Unit
    THEN [x |-> DivRound(a.dom.w * (Unit - scale), 2),
          y |-> DivRound(a.dom.h * (Unit - scale), 2)]
    ELSE [x |-> Max(-(a.dom.w * (scale - Unit)), Min(panX, 0)),
          y |-> Max(-(a.dom.h * (scale - Unit)), Min(panY, 0))]

resetView(a) == requestViewAnimation([a EXCEPT !.targetViewState = ViewAtRest])

\* the world point under a point of the canvas given in whole pixels
getMovieCanvasPoint(a, canvasX, canvasY) ==
    [x |-> MulDiv(canvasX * Unit - a.viewState.pan.x, Unit, a.viewState.scale),
     y |-> MulDiv(canvasY * Unit - a.viewState.pan.y, Unit, a.viewState.scale)]

\* the point the zoom holds still: the pointer, or the middle of the panel
\* when the pointer is off the canvas
ZoomAnchor(a, e) ==
    LET point == getMovieCanvasPoint(a, e.x, e.y) IN
    IF point.x < 0 \/ point.x > a.dom.w * Unit \/ point.y < 0 \/ point.y > a.dom.h * Unit
    THEN getMovieCanvasPoint(a, a.dom.w \div 2, a.dom.h \div 2)
    ELSE point

\* oldScale * 2^delta
ZoomedScale(oldScale, delta) ==
    IF delta >= 0 THEN oldScale * 2^delta ELSE DivRound(oldScale, 2^(-delta))

ZoomTo(a1, clampedScale, oldScale, zoomAnchor) ==
    LET g == Gcd(clampedScale, oldScale)
        pan == a1.targetViewState.pan
    IN requestViewAnimation(
         [a1 EXCEPT !.targetViewState =
             [scale |-> clampedScale,
              pan |-> constrainPan(a1,
                        zoomAnchor.x - MulDiv(zoomAnchor.x - pan.x, clampedScale \div g, oldScale \div g),
                        zoomAnchor.y - MulDiv(zoomAnchor.y - pan.y, clampedScale \div g, oldScale \div g),
                        clampedScale)]])

WheelZoom(a0, e, clampedScale) ==
    IF clampedScale = a0.targetViewState.scale THEN a0
    ELSE ZoomTo(a0, clampedScale, a0.targetViewState.scale, ZoomAnchor(a0, e))

\* the timers of a page on which none has been set
NoTimeouts ==
    [ pending |-> {}, cancelled |-> FALSE, toastTimeout |-> 0,
      toastEl |-> [textContent |-> "", visibility |-> "hidden"] ]

\* the id setTimeout returns: one that no pending timer has and that the
\* state does not hold
FreshTimeoutId(a, held) ==
    LET free == (1..(Cardinality(a.timeouts.pending) + Cardinality(held) + 1))
                    \ ({ t.id : t \in a.timeouts.pending } \cup held)
    IN CHOOSE n \in free : \A m \in free : n <= m

\* setTimeout(callback, delay): superseded records that the handler which set
\* a timer has run again since
setTimeout(a, callback, id) ==
    [a EXCEPT !.timeouts.pending = @ \cup {[id |-> id, callback |-> callback, superseded |-> FALSE]}]

\* a clearTimeout that leaves the timer to fire
clearTimeoutForgotten(a, id) ==
    [a EXCEPT !.timeouts.cancelled = FALSE]

\* clearTimeout(id); cancelled records whether a pending timer had the id
clearTimeout(a, id) ==
    [a EXCEPT !.timeouts.pending = { t \in @ : t.id # id },
              !.timeouts.cancelled = \E t \in a.timeouts.pending : t.id = id]

\* the handler that sets the timers of this callback is entered
Superseded(a, callback) ==
    [a EXCEPT !.timeouts.pending =
        { IF t.callback = callback THEN [t EXCEPT !.superseded = TRUE] ELSE t : t \in @ }]

\* toast(message, duration): timed is duration !== null
toast(a, message, timed) ==
    LET a1 == clearTimeout(Superseded(a, "hideToast"), a.timeouts.toastTimeout)
        a2 == [a1 EXCEPT !.timeouts.toastEl = [textContent |-> message, visibility |-> "visible"],
                         !.stepLog.toast = message]
        id == FreshTimeoutId(a2, {a2.zoomSnapTimeout})
    IN IF timed THEN setTimeout([a2 EXCEPT !.timeouts.toastTimeout = id], "hideToast", id)
       ELSE a2

hideToast(a) ==
    [clearTimeout(a, a.timeouts.toastTimeout) EXCEPT !.timeouts.toastEl.visibility = "hidden"]

\* the callback of the timer toast sets
toastTimeoutFired(a, t) ==
    [a EXCEPT !.timeouts.pending = @ \ {t}, !.timeouts.toastEl.visibility = "hidden"]

\* the timer of SNAP_DELAY is set
SnapTimeoutSet(a0) ==
    LET id == FreshTimeoutId(a0, {a0.timeouts.toastTimeout}) IN
    setTimeout([a0 EXCEPT !.zoomSnapTimeout = id], "resetView", id)

handleCanvasWheel(a, e) ==
    LET oldScale == a.targetViewState.scale
        clampedScale == Max(OVERVIEW_SCALE, Min(ZoomedScale(oldScale, -(e.deltaY \div 100)), 5 * Unit))
        pan == a.targetViewState.pan
        a0 == clearTimeout(Superseded(a, "resetView"), a.zoomSnapTimeout)
    IN
    IF e.ctrlKey
    THEN WheelZoom(IF clampedScale > (97 * Unit) \div 100 /\ clampedScale < (103 * Unit) \div 100
                   THEN SnapTimeoutSet(a0) ELSE a0,
                   e, clampedScale)
    ELSE IF oldScale <= Unit THEN a0
    ELSE requestViewAnimation(
           [a0 EXCEPT !.targetViewState.pan =
                         constrainPan(a, pan.x - (e.deltaX * 24 * Unit) \div 10,
                                         pan.y - (e.deltaY * 24 * Unit) \div 10, oldScale)])

\* the middle-button branch of handleMovieInteractionMove
PanBy(a, movement) ==
    IF a.dom.w = 0 THEN a
    ELSE requestViewAnimation(
           [a EXCEPT !.targetViewState.pan =
               constrainPan(a, a.targetViewState.pan.x + movement[1] * Unit,
                               a.targetViewState.pan.y + movement[2] * Unit,
                               a.targetViewState.scale)])

Eased(current, target) == current + DivRound((target - current) * 3, 10)

ViewSettled(a1) ==
    IF /\ Abs(a1.viewState.scale - a1.targetViewState.scale) < epsilon
       /\ Abs(a1.viewState.pan.x - a1.targetViewState.pan.x) < epsilon
       /\ Abs(a1.viewState.pan.y - a1.targetViewState.pan.y) < epsilon
    THEN drawFrame([a1 EXCEPT !.viewState = a1.targetViewState, !.isAnimatingView = FALSE])
    ELSE a1

updateViewAnimation(a) ==
    IF ~a.isAnimatingView THEN a
    ELSE ViewSettled(drawFrame(
           [a EXCEPT !.viewState =
               [scale |-> Eased(a.viewState.scale, a.targetViewState.scale),
                pan |-> [x |-> Eased(a.viewState.pan.x, a.targetViewState.pan.x),
                         y |-> Eased(a.viewState.pan.y, a.targetViewState.pan.y)]]]))

-----------------------------------------------------------------------------
(* Background *)

\* a re-layout that moves the layers and leaves their sizes
RelayoutKeepingSize(l, newCanvasWidth, newCanvasHeight) ==
    [l EXCEPT !.x = (l.propX.n * newCanvasWidth) \div l.propX.d,
              !.y = (l.propY.n * newCanvasHeight) \div l.propY.d,
              !.cache.isValid = FALSE]

\* the forEach of setBackground over one layer
Relayout(l, newCanvasWidth, newCanvasHeight) ==
    LET newMasterDim == Sqrt(newCanvasWidth * newCanvasHeight)
        scaled == (l.propSize.n * newMasterDim) \div l.propSize.d
        l1 == IF l.type = "image" THEN [l EXCEPT !.size = scaled] ELSE [l EXCEPT !.fontSize = scaled]
        l2 == [l1 EXCEPT !.x = (l.propX.n * newCanvasWidth) \div l.propX.d,
                         !.y = (l.propY.n * newCanvasHeight) \div l.propY.d]
        bbox == getRotatedBoundingBox(l2)
        deltaX == IF bbox.left < 0 THEN -bbox.left
                  ELSE IF bbox.right > 2 * newCanvasWidth THEN 2 * newCanvasWidth - bbox.right ELSE 0
        deltaY == IF bbox.top < 0 THEN -bbox.top
                  ELSE IF bbox.bottom > 2 * newCanvasHeight THEN 2 * newCanvasHeight - bbox.bottom ELSE 0
    IN [l2 EXCEPT !.x = @ + deltaX \div 2, !.y = @ + deltaY \div 2, !.cache.isValid = FALSE]

\* the canvas size setBackground gives an element under the project rotation
CanvasSizeFor(element, projectRotation) ==
    LET isTilted == projectRotation \in {90, 270}
        w == IF isTilted THEN element.h ELSE element.w
        h == IF isTilted THEN element.w ELSE element.h
    IN IF w > MAX_CANVAS_WIDTH
       THEN [w |-> MAX_CANVAS_WIDTH, h |-> (2 * MAX_CANVAS_WIDTH * h + w) \div (2 * w)]
       ELSE [w |-> w, h |-> h]

\* setBackground from the resize of the canvas to the redraw
ApplyBackground(a1, element, isRestoring, size) ==
    drawFrame([a1 EXCEPT !.canvasState.bgBrightness = IF isRestoring THEN @ ELSE 10,
                         !.canvasState.backgroundElement = element.element,
                         !.canvasState.backgroundHash = element.hash,
                         !.dom = size,
                         !.layers = IF a1.canvasState.backgroundElement # 0 /\ Len(@) > 0
                                    THEN [i \in 1..Len(@) |-> Relayout(@[i], size.w, size.h)]
                                    ELSE @])

\* the closing dispatch of setBackground
AnnounceBackground(a4, element, isRestoring) ==
    IF ~isRestoring
    THEN dispatch(a4, Action("BACKGROUND_CHANGED", [backgroundHash |-> element.hash]), FALSE)
    ELSE a4

\* setBackground after its reset of the project rotation
SizedBackground(a1, element, isRestoring) ==
    AnnounceBackground(
        ApplyBackground([a1 EXCEPT !.viewState = ViewAtRest, !.targetViewState = ViewAtRest],
                        element, isRestoring,
                        CanvasSizeFor(element, a1.canvasState.projectRotation)),
        element, isRestoring)

setBackground(a, element, isRestoring) ==
    SizedBackground(IF ~isRestoring /\ element.hash # a.canvasState.backgroundHash
                    THEN dispatch(a, Action("RESET_PROJECT_ROTATION", [none |-> 0]), FALSE)
                    ELSE a,
                    element, isRestoring)

-----------------------------------------------------------------------------
(* Pointer gestures *)

Snapshot(l) == [x |-> l.x, y |-> l.y, size |-> l.size, fontSize |-> l.fontSize, rot |-> l.rot]

\* one dab on mipmaps[0], then a redraw: the dab changes the pixel under it
\* when that pixel is not transparent already
applyBrushToLayer(a, idx, canvasPoint) ==
    IF idx = 0 \/ a.layers[idx].type # "image" \/ a.layers[idx].mipW = 0 THEN a
    ELSE drawFrame([a EXCEPT !.layers[idx].cache.isValid = FALSE,
                             !.layers[idx].pix =
                                 IF isPixelOpaqueAtPoint(a.layers[idx], canvasPoint)
                                 THEN @ + 1 ELSE @,
                             !.movieInteraction.didChangeContent = TRUE])

handleMovieInteractionStart(a, point, button) ==
    LET idx == getActiveIndex(a)
        a0 == [a EXCEPT !.movieInteraction.didDrag = FALSE]
        handle == IF idx # 0 THEN getMovieHandleAtPoint(point, a.layers[idx]) ELSE ""
        hit == LayerAtPoint(a.layers, point)
    IN
    IF button = 1
    THEN startRenderLoop([a EXCEPT !.isPanning = TRUE,
                                   !.movieInteraction = [IdleInteraction EXCEPT !.active = TRUE, !.type = "pan"]])
    ELSE IF a.isEraserArmed
    THEN IF idx # 0 /\ a.layers[idx].isLocked THEN a
         ELSE IF idx # 0 /\ a.layers[idx].type = "image" /\ isPointInMovieLayer(point, a.layers[idx])
         THEN applyBrushToLayer(
                  [a EXCEPT !.movieInteraction = [IdleInteraction EXCEPT !.active = TRUE, !.type = "erase",
                                                                         !.layerId = a.layers[idx].id]],
                  idx, point)
         ELSE a
    ELSE IF idx # 0 /\ handle # ""
    THEN IF a.layers[idx].isLocked THEN a0
         ELSE LET l == a.layers[idx]
                  isResize == handle # "rotate"
              IN startRenderLoop(drawFrame(
                   [a0 EXCEPT !.movieInteraction =
                       [@ EXCEPT !.active = TRUE,
                                 !.type = IF isResize THEN "resize" ELSE "rotate",
                                 !.layerId = l.id, !.handle = handle,
                                 !.startX = point.x, !.startY = point.y,
                                 !.initialState = Snapshot(l),
                                 !.anchorPoint = IF isResize
                                                 THEN getHandleWorldPosition(l, OppositeHandle(handle)) ELSE @,
                                 !.startHandlePoint = IF isResize
                                                      THEN getHandleWorldPosition(l, handle) ELSE @]]))
    ELSE IF hit # 0
    THEN LET l == a.layers[hit] IN
         IF l.isLocked
         THEN IF a.activeLayerId # l.id THEN drawFrame([a0 EXCEPT !.activeLayerId = l.id]) ELSE a0
         ELSE startRenderLoop(drawFrame(
                [a0 EXCEPT !.activeLayerId = l.id,
                           !.movieInteraction =
                               [IdleInteraction EXCEPT !.active = TRUE, !.type = "drag", !.layerId = l.id,
                                                       !.offsetX = point.x - l.x, !.offsetY = point.y - l.y,
                                                       !.startClickPoint = point,
                                                       !.initialState = Snapshot(l)]]))
    ELSE drawFrame([a0 EXCEPT !.activeLayerId = 0])

\* Math.max(0.01, projectedDist / initialDist), as a fraction
ScaleFactor(dot, distSq) == IF dot * 100 < distSq THEN Rat(1, 100) ELSE Rat(dot, distSq)

Scaled(v, f) == (v * f.n) \div f.d

resizeMove(a, l, point) ==
    LET mi == a.movieInteraction
        ivx == mi.startHandlePoint.x - mi.anchorPoint.x
        ivy == mi.startHandlePoint.y - mi.anchorPoint.y
        distSq == ivx * ivx + ivy * ivy
        dot == (point.x - mi.anchorPoint.x) * ivx + (point.y - mi.anchorPoint.y) * ivy
        scaleFactor == ScaleFactor(dot, distSq)
        newX == mi.anchorPoint.x + Scaled(mi.initialState.x - mi.anchorPoint.x, scaleFactor)
        newY == mi.anchorPoint.y + Scaled(mi.initialState.y - mi.anchorPoint.y, scaleFactor)
    IN IF distSq <= 1 THEN a
       ELSE dispatch(
                dispatch(a, Action("LAYER_TRANSFORMED", [layerId |-> l.id, x |-> newX, y |-> newY]), FALSE),
                Action("LAYER_PROPERTY_CHANGED",
                    [layerId |-> l.id,
                     property |-> IF l.type = "text" THEN "fontSize" ELSE "size",
                     value |-> IF l.type = "text"
                               THEN Max(MIN_FONT_SIZE, Scaled(mi.initialState.fontSize, scaleFactor))
                               ELSE Max(MIN_IMAGE_SIZE, Scaled(mi.initialState.size, scaleFactor))]),
                FALSE)

\* Move after the drag-threshold test: the branch of the gesture in progress
MoveGesture(a1, mi, idx, point) ==
    IF idx = 0 THEN a1
    ELSE IF mi.type = "erase" THEN applyBrushToLayer(a1, idx, point)
    ELSE IF mi.type = "drag"
    THEN dispatch(a1, Action("LAYER_TRANSFORMED",
                [layerId |-> a1.layers[idx].id,
                 x |-> point.x - mi.offsetX, y |-> point.y - mi.offsetY]), FALSE)
    ELSE IF mi.type = "rotate"
    THEN dispatch(a1, Action("LAYER_TRANSFORMED",
                [layerId |-> a1.layers[idx].id,
                 rot |-> mi.initialState.rot
                         + (Atan2Deg(point.y - mi.initialState.y, point.x - mi.initialState.x)
                            - Atan2Deg(mi.startY - mi.initialState.y, mi.startX - mi.initialState.x))]),
                FALSE)
    ELSE IF mi.type = "resize" THEN resizeMove(a1, a1.layers[idx], point)
    ELSE a1

\* the drag-threshold test of Move
CrossThreshold(a, point) ==
    LET mi == a.movieInteraction
        dx == point.x - mi.startClickPoint.x
        dy == point.y - mi.startClickPoint.y
    IN IF ~mi.didDrag /\ mi.startClickPoint.defined
          /\ dx * dx + dy * dy > DRAG_THRESHOLD * DRAG_THRESHOLD
       THEN updateTransformCaches([a EXCEPT !.movieInteraction.didDrag = TRUE,
                                            !.scrubbingMode = "transform"])
       ELSE a

AfterThreshold(a1, mi, point) == MoveGesture(a1, mi, getActiveIndex(a1), point)

handleMovieInteractionMove(a, point, movement) ==
    IF a.isPanning /\ a.movieInteraction.type = "pan" THEN PanBy(a, movement)
    ELSE IF ~a.movieInteraction.active THEN a
    ELSE AfterThreshold(CrossThreshold(a, point), a.movieInteraction, point)

FinalPayloadOfStart(l, d) ==
    [ layerId |-> l.id, propX |-> l.propX, propY |-> l.propY, propSize |-> l.propSize,
      alignX |-> "center", alignY |-> "middle" ]

\* the payload End dispatches after a transform that passed the drag threshold
FinalPayload(l, d) ==
    LET bbox == getRotatedBoundingBox(l) IN
    [ layerId |-> l.id,
      propX |-> Rat(l.x, d.w), propY |-> Rat(l.y, d.h),
      propSize |-> Rat(IF l.type = "image" THEN l.size ELSE l.fontSize, MasterDim(d)),
      alignX |-> IF bbox.left < 2 * ALIGN_THRESHOLD THEN "left"
                 ELSE IF bbox.right > 2 * (d.w - ALIGN_THRESHOLD) THEN "right" ELSE "center",
      alignY |-> IF bbox.top < 2 * ALIGN_THRESHOLD THEN "top"
                 ELSE IF bbox.bottom > 2 * (d.h - ALIGN_THRESHOLD) THEN "bottom" ELSE "middle" ]

\* the click-selection at the end of the try block
SelectClicked(a1, mi) ==
    LET hit == LayerAtPoint(a1.layers, mi.startClickPoint) IN
    IF ~mi.didDrag /\ mi.startClickPoint.defined
    THEN [a1 EXCEPT !.activeLayerId = IF hit = 0 THEN 0 ELSE a1.layers[hit].id]
    ELSE a1

\* the try block after stopRenderLoop
Finalise(a) ==
    LET mi == a.movieInteraction
        wasTransforming == mi.type \in {"drag", "rotate", "resize"}
        wasErasing == mi.type = "erase"
        idx == getActiveIndex(a)
    IN SelectClicked(
           IF wasTransforming /\ mi.didDrag /\ idx # 0
           THEN dispatch(a, Action("LAYER_TRANSFORMED", FinalPayload(a.layers[idx], a.dom)), FALSE)
           ELSE IF wasErasing /\ mi.didChangeContent /\ idx # 0
           THEN [a EXCEPT !.layers[idx].contentVersion = @ + 1,
                          !.layers[idx].cache.isValid = FALSE]
           ELSE a,
           mi)

\* the finally block
ResetInteraction(a) ==
    drawFrame([a EXCEPT !.scrubbingMode = "none", !.movieInteraction = IdleInteraction])

\* the try block without its finally
EndWithoutFinally(a, thrown) ==
    LET a0 == [a EXCEPT !.isPanning = FALSE] IN
    IF ~a.movieInteraction.active THEN a0
    ELSE IF thrown = "stopRenderLoop"
    THEN [a0 EXCEPT !.animationFrameId = 0, !.stepLog.threw = TRUE]
    ELSE IF thrown = "finalise"
    THEN [stopRenderLoop(a0) EXCEPT !.stepLog.threw = TRUE]
    ELSE ResetInteraction(Finalise(stopRenderLoop(a0)))

\* thrown: where, if anywhere, the try block throws
handleMovieInteractionEnd(a, thrown) ==
    LET a0 == [a EXCEPT !.isPanning = FALSE] IN
    IF ~a.movieInteraction.active THEN a0
    ELSE IF thrown = "stopRenderLoop"
    THEN [ResetInteraction([a0 EXCEPT !.animationFrameId = 0]) EXCEPT !.stepLog.threw = TRUE]
    ELSE IF thrown = "finalise"
    THEN [ResetInteraction(stopRenderLoop(a0)) EXCEPT !.stepLog.threw = TRUE]
    ELSE ResetInteraction(Finalise(stopRenderLoop(a0)))

-----------------------------------------------------------------------------
(* Keyboard and panel handlers *)

BackgroundOf(element) == CHOOSE b \in Backgrounds \cup WideBackgrounds \cup DoubleBackgrounds \cup PhotoBackgrounds : b.element = element

rotateProject(a) ==
    IF a.canvasState.backgroundElement = 0 THEN a
    ELSE setBackground(dispatch(a, Action("PROJECT_ROTATED", [none |-> 0]), FALSE),
                       BackgroundOf(a.canvasState.backgroundElement), TRUE)

deleteMovieLayer(a, layerId) == dispatch(a, Action("LAYER_DELETED", [layerId |-> layerId]), FALSE)

\* activeLayer.size * 1.05 or * 0.95
KeyScaled(v, key) == IF key = "d" THEN (v * 105) \div 100 ELSE (v * 95) \div 100

handleKeyDown(a, key) ==
    LET idx == getActiveIndex(a)
        l == a.layers[idx]
    IN
    IF key = "t"
    THEN IF a.canvasState.backgroundElement # 0
         THEN drawFrame(dispatch(a, Action("TOGGLE_BACKGROUND_FLIP", [none |-> 0]), FALSE))
         ELSE a
    ELSE IF key = "r" THEN rotateProject(a)
    ELSE IF key = "ctrl+z" THEN dispatch(a, Action("UNDO", [none |-> 0]), FALSE)
    ELSE IF key = "ctrl+y" THEN dispatch(a, Action("REDO", [none |-> 0]), FALSE)
    ELSE IF key = "z" THEN resetView(a)
    ELSE IF key = "escape" /\ a.isEraserArmed THEN deactivateEraser(a)
    ELSE IF idx = 0 THEN a
    ELSE IF key \in {"q", "w"}
    THEN dispatch(a, Action("LAYER_REORDERED",
                [layerId |-> l.id, delta |-> IF key = "q" THEN -1 ELSE 1]), FALSE)
    ELSE IF key \in {"d", "f"}
    THEN IF l.type = "image"
         THEN dispatch(a, Action("LAYER_PROPERTY_CHANGED",
                [layerId |-> l.id, property |-> "size", value |-> KeyScaled(l.size, key)]), FALSE)
         ELSE dispatch(a, Action("LAYER_PROPERTY_CHANGED",
                [layerId |-> l.id, property |-> "fontSize", value |-> KeyScaled(l.fontSize, key)]), FALSE)
    ELSE IF key \in {"delete", "backspace"} THEN deleteMovieLayer(a, l.id)
    ELSE a

addTextLayer(a) ==
    IF a.canvasState.backgroundElement = 0 THEN a
    ELSE triggerAnimatedRender(
            [dispatch(WithCreatedAt(a, a.nextId, a.animatedRender.now),
                      Action("LAYER_ADDED", [newLayer |-> TextLayer(a.nextId, a.dom)]), FALSE)
                EXCEPT !.nextId = @ + 1])

\* text layers have no mipmaps: the copy throws before it dispatches
duplicateLayer(a, layerId) ==
    LET i == FindIndex(a.layers, layerId)
        sourceLayer == a.layers[i]
    IN IF i = 0 THEN a
       ELSE IF sourceLayer.type # "image" THEN [a EXCEPT !.stepLog.threw = TRUE]
       ELSE triggerAnimatedRender(
              [dispatch(IF layerId \in DOMAIN a.animatedRender.createdAt
                        THEN WithCreatedAt(a, a.nextId, a.animatedRender.createdAt[layerId])
                        ELSE a,
                        Action("LAYER_ADDED",
                 [newLayer |-> [sourceLayer EXCEPT !.id = a.nextId,
                                                   !.x = @ + DUPLICATE_OFFSET, !.y = @ + DUPLICATE_OFFSET,
                                                   !.isLocked = FALSE,
                                                   !.cache = [canvas |-> NoCanvas, isValid |-> FALSE]]]), FALSE)
                EXCEPT !.nextId = @ + 1])

toggleLock(a, layerId) ==
    LET i == FindIndex(a.layers, layerId) IN
    IF i = 0 THEN a
    ELSE dispatch(a, Action("LAYER_PROPERTY_CHANGED",
            [layerId |-> layerId, property |-> "isLocked", value |-> ~a.layers[i].isLocked]), FALSE)

\* click on a palette thumbnail
selectFromPalette(a, layerId) ==
    LET a1 == IF a.activeLayerId # layerId THEN deactivateEraser(a) ELSE a
    IN drawFrame([a1 EXCEPT !.activeLayerId = layerId])

setEraserMode(a) ==
    LET idx == getActiveIndex(a) IN
    IF idx = 0 \/ a.layers[idx].type # "image" THEN a
    ELSE [a EXCEPT !.isEraserArmed = ~@]

DrawnIf(redraw, a1) == IF redraw THEN drawFrame(a1) ELSE a1

\* slider, checkbox and text-box handlers of the edit panels
\* phase: "input" dispatches the preview action, "change" the committing one
changeProperty(a, effect, property, value, phase) ==
    LET idx == getActiveIndex(a)
        l == a.layers[idx]
        type == "LAYER_" \o effect \o (IF phase = "input" THEN "_PREVIEW_CHANGED" ELSE "_CHANGED")
    IN IF idx = 0 THEN a
       ELSE IF property = "text" /\ l.type # "text" THEN a
       ELSE DrawnIf(phase = "input" /\ property # "opacity",
                    dispatch(a, Action(type, [layerId |-> l.id, property |-> property,
                                              value |-> value]), FALSE))

\* the drop handler of the layer palette: newOrder is the palette order, bottom first
paletteDrop(a, newOrder) ==
    LET ids == Reverse(newOrder)
        present == SelectSeq(ids, LAMBDA id : FindIndex(a.layers, id) # 0)
    IN drawFrame([a EXCEPT !.layers = [i \in 1..Len(present) |-> a.layers[FindIndex(a.layers, present[i])]]])

\* addImageLayer up to its first await
addImageLayer(a, asset, needsOptimization) ==
    IF a.canvasState.backgroundElement = 0 THEN a
    ELSE [a EXCEPT !.pending = @ \cup { Job("decode", IF needsOptimization THEN 1 ELSE 0, asset.hash, NoLayer) }]

AssetOf(hash) == CHOOSE asset \in Assets \cup HollowAssets : asset.hash = hash

\* converterWorker.postMessage at the end of addImageLayer
PostToWorker(a1, job, layerId) ==
    IF job.id = 1
    THEN [a1 EXCEPT !.pending = @ \cup { Job("transcode", layerId, job.hash, NoLayer) }]
    ELSE a1

\* addImageLayer after createLayerFromSrc has resolved
imageDecoded(a, job) ==
    triggerAnimatedRender(PostToWorker(
        dispatch([WithCreatedAt(a, a.nextId, a.animatedRender.now)
                     EXCEPT !.pending = @ \ {job}, !.nextId = @ + 1],
                 Action("LAYER_ADDED", [newLayer |-> ImageLayer(a.nextId, AssetOf(job.hash), a.dom)]),
                 FALSE),
        job, a.nextId))

\* converterWorker.onmessage
transcodeDone(a, job) ==
    LET a1 == [a EXCEPT !.pending = @ \ {job}] IN
    IF FindIndex(a.layers, job.id) = 0 THEN a1
    ELSE dispatch(a1, Action("LAYER_OPTIMIZATION_COMPLETE",
            [layerId |-> job.id, newProxyW |-> AssetOf(job.hash).w,
             newContentFrame |-> [x |-> 0, width |-> AssetOf(job.hash).w],
             wasOptimized |-> TRUE]), FALSE)

\* the fields of the layer object runU2NetOnImageLayer reads when it resumes
Captured(l) == [id |-> l.id, x |-> l.x, y |-> l.y, size |-> l.size, mipW |-> l.mipW]

\* removeBgForActiveImageLayer up to its first await: the job keeps the layer object
removeBgForActiveImageLayer(a) ==
    LET idx == getActiveIndex(a) IN
    IF idx = 0 \/ a.layers[idx].type # "image"
    THEN [a EXCEPT !.stepLog.toast = "Select an image layer first."]
    ELSE [a EXCEPT !.pending = @ \cup { Job("segment", a.layers[idx].id, 0, Captured(a.layers[idx])) }]

\* runU2NetOnImageLayer after the model has run, for a mask whose content is
\* maskW wide and centred: the layer is cropped to it.
\* layer.mipmaps[0] is the canvas the live layer object shares, strokes included
segmentationMasked(a, job, maskW) ==
    LET layer == job.layer
        idx == FindIndex(a.layers, layer.id)
        maskedPix == (IF idx # 0 THEN a.layers[idx].pix ELSE 0) + 1
        size == (layer.size * maskW) \div layer.mipW
        payload == [ layerId |-> layer.id, x |-> layer.x, y |-> layer.y, size |-> size,
                     mipW |-> maskW, pix |-> maskedPix,
                     contentFrame |-> [x |-> 0, width |-> maskW],
                     cache |-> [canvas |-> NoCanvas, isValid |-> FALSE],
                     propX |-> Rat(layer.x, a.dom.w), propY |-> Rat(layer.y, a.dom.h),
                     propSize |-> Rat(size, MasterDim(a.dom)),
                     alignX |-> "center", alignY |-> "middle" ]
    IN drawFrame(dispatch([a EXCEPT !.pending = @ \ {job}, !.stepLog.toast = "Background removed."],
                          Action("LAYER_TRANSFORMED", payload), FALSE))

\* the same for a mask that keeps the content bounds
segmentationDone(a, job) == segmentationMasked(a, job, job.layer.mipW)

\* a failure that strikes after the mask was applied
segmentationFailedAfterMask(a, job) ==
    [segmentationDone(a, job) EXCEPT !.stepLog.toast = "BG removal failed. See console."]

\* getBgSession, createImageBitmap or session.run rejects: the catch block of
\* removeBgForActiveImageLayer
segmentationFailed(a, job) ==
    [a EXCEPT !.pending = @ \ {job}, !.stepLog.toast = "BG removal failed. See console."]

\* a peer's image layer comes with the data URL of its asset
CarriesAsset(action) ==
    /\ action.type = "LAYER_ADDED"
    /\ action.payload.newLayer.type = "image"
    /\ "assetDataUrl" \in DOMAIN action.payload.newLayer

\* collaborationManager.handleServerMessage on a decrypted peer action: an
\* image layer that carries its asset is saved and decoded before it is
\* dispatched, every other action is dispatched at once
handleServerMessage(a, action) ==
    IF CarriesAsset(action)
    THEN LET newLayer == action.payload.newLayer IN
         [a EXCEPT !.pending = @ \cup { Job("hydrate", newLayer.id, newLayer.originalHash,
                                            [k \in DOMAIN newLayer \ {"assetDataUrl"} |-> newLayer[k]]) }]
    ELSE dispatch(a, action, TRUE)

\* the same completion through the local path of setBackground
backgroundFetchedAsLocal(a, job) ==
    setBackground([a EXCEPT !.pending = @ \ {job}],
                  CHOOSE b \in Backgrounds \cup WideBackgrounds \cup DoubleBackgrounds \cup PhotoBackgrounds : b.hash = job.hash, FALSE)

\* img.onload of loadAndSetBackgroundFromHash
backgroundFetched(a, job) ==
    setBackground([a EXCEPT !.pending = @ \ {job}],
                  CHOOSE b \in Backgrounds \cup WideBackgrounds \cup DoubleBackgrounds \cup PhotoBackgrounds : b.hash = job.hash, TRUE)

-----------------------------------------------------------------------------
(* The library (libraryManager.js): the asset store, saved projects, uploads *)

\* a record of the 'assets' store; the store is kept as a sequence in the order
\* of createdAt, oldest first; w and h are the natural size of record.full,
\* (0, 0) for a blob that does not decode, and bytes its size in megabytes
AssetRecord(id, hash, kind, w, h, bytes) ==
    [ id |-> id, hash |-> hash, kind |-> kind, w |-> w, h |-> h, bytes |-> bytes,
      isFavorite |-> FALSE, isUserDeleted |-> FALSE, referenceCount |-> 0 ]

\* the library the backgrounds and the images of the palettes are picked from
Library ==
    << AssetRecord(1, 1, "background", 100, 100, 1), AssetRecord(2, 2, "background", 200, 200, 1),
       AssetRecord(3, 3, "background", 160, 90, 1), AssetRecord(4, 4, "background", 320, 180, 1),
       AssetRecord(5, 5, "background", 800, 600, 1), AssetRecord(6, 7, "asset", 64, 64, 1),
       AssetRecord(7, 8, "asset", 64, 64, 1) >>

\* the key the store gives the next record
FreshKey(store) ==
    IF store = << >> THEN 1
    ELSE 1 + CHOOSE k \in { store[i].id : i \in 1..Len(store) } :
                 \A i \in 1..Len(store) : store[i].id <= k

\* idbFindByHash: the records with the hash, in the order of their keys
RECURSIVE SortedByKey(_)
SortedByKey(recs) ==
    IF recs = {} THEN << >>
    ELSE LET first == CHOOSE r \in recs : \A q \in recs : r.id <= q.id
         IN << first >> \o SortedByKey(recs \ {first})

idbFindByHash(store, hash) ==
    SortedByKey({ store[i] : i \in { j \in 1..Len(store) : store[j].hash = hash } })

\* idbDelete(id, 'assets')
idbDelete(store, id) == SelectSeq(store, LAMBDA r : r.id # id)

\* idbPut of a record whose createdAt is Date.now(): it becomes the newest
PutNewest(store, rec) == Append(idbDelete(store, rec.id), rec)

\* idbPut of a record whose createdAt is as it was
PutInPlace(store, rec) == [i \in 1..Len(store) |-> IF store[i].id = rec.id THEN rec ELSE store[i]]

RECURSIVE TotalBytes(_)
TotalBytes(store) == IF store = << >> THEN 0 ELSE Head(store).bytes + TotalBytes(Tail(store))

\* the position of the oldest record that is not a favourite, 0 for none
OldestNonFavorite(store) ==
    LET idxs == { i \in 1..Len(store) : ~store[i].isFavorite } IN
    IF idxs = {} THEN 0 ELSE CHOOSE i \in idxs : \A j \in idxs : i <= j

\* enforceQuota: the oldest non-favourites go until the total is within the limit
RECURSIVE enforceQuota(_, _)
enforceQuota(store, limitBytes) ==
    IF TotalBytes(store) <= limitBytes \/ OldestNonFavorite(store) = 0 THEN store
    ELSE enforceQuota(idbDelete(store, store[OldestNonFavorite(store)].id), limitBytes)

\* saveAssetToLibrary: a record of the same hash and kind is refreshed, else a
\* new record is added; then the quota is enforced
saveAssetToLibrary(store, file, kind) ==
    LET same == SelectSeq(idbFindByHash(store, file.hash), LAMBDA r : r.kind = kind) IN
    enforceQuota(
        IF same # << >>
        THEN PutNewest(store, [same[1] EXCEPT !.isUserDeleted = FALSE])
        ELSE PutNewest(store, AssetRecord(FreshKey(store), file.hash, kind, file.w, file.h, file.bytes)),
        QUOTA_MEGABYTES)

\* saveAssetToLibrary up to its first await: idbFindByHash is under way
findingByHash(a, id, file, kind) ==
    [a EXCEPT !.pending = @ \cup { Job("find", id, file.hash,
                                       [file |-> file, kind |-> kind, existing |-> NoLayer]) }]

\* idbFindByHash has resolved: the record of the kind, if there is one, is
\* what the call goes on with
foundByHash(a, job) ==
    LET same == SelectSeq(idbFindByHash(a.assetStore, job.hash),
                          LAMBDA r : r.kind = job.layer.kind)
    IN [a EXCEPT !.pending = (@ \ {job}) \cup
                     { Job("put", job.id, job.hash,
                           [job.layer EXCEPT !.existing = IF same # << >> THEN same[1]
                                                          ELSE NoLayer]) }]

\* the idbPut of saveAssetToLibrary and the quota after it: the record read
\* before is written back as the newest, or a new record is added
assetPut(a, job) ==
    LET file == job.layer.file
        existing == job.layer.existing
    IN [a EXCEPT !.pending = @ \ {job},
                 !.assetStore =
                     enforceQuota(
                         IF existing # NoLayer
                         THEN PutNewest(@, [existing EXCEPT !.isUserDeleted = FALSE])
                         ELSE PutNewest(@, AssetRecord(FreshKey(@), file.hash, job.layer.kind,
                                                       file.w, file.h, file.bytes)),
                         QUOTA_MEGABYTES),
                 !.stepLog.toast = IF existing # NoLayer
                                   THEN "Already in the library. Updated timestamp."
                                   ELSE @]

\* the calls of saveAssetToLibrary that Promise.all starts for files k..
RECURSIVE FindingAll(_, _, _, _)
FindingAll(a, files, k, kind) ==
    IF k > Len(files) THEN a
    ELSE FindingAll(findingByHash(a, k, files[k], kind), files, k + 1, kind)

addFilesToLibraryOnly(a, files, intendedUse) ==
    LET validFiles == SelectSeq(files, LAMBDA file : file.type # "text/plain") IN
    IF validFiles = << >>
    THEN [a EXCEPT !.stepLog.toast = "No valid image files were selected."]
    ELSE FindingAll(a, validFiles, 1, intendedUse)

\* the Image element made from a record of the store
ElementOf(rec) == [element |-> rec.hash, hash |-> rec.hash, w |-> rec.w, h |-> rec.h]

\* what getSavableState keeps of a layer: everything but asset, mipmaps and
\* cache, with mipmaps[0] as proxyCanvasDataURL
SavedLayer(l) ==
    [ id |-> l.id, type |-> l.type, originalHash |-> l.originalHash,
      x |-> l.x, y |-> l.y, size |-> l.size, fontSize |-> l.fontSize, rot |-> l.rot,
      opacity |-> l.opacity, shadow |-> l.shadow, border |-> l.border, text |-> l.text,
      contentVersion |-> l.contentVersion, contentFrame |-> l.contentFrame,
      isOptimized |-> l.isOptimized, isLocked |-> l.isLocked,
      propX |-> l.propX, propY |-> l.propY, propSize |-> l.propSize,
      alignX |-> l.alignX, alignY |-> l.alignY,
      proxyCanvasDataURL |-> [w |-> l.mipW, pix |-> l.pix] ]

getSavableState(a) ==
    [ currentProjectId |-> a.canvasState.currentProjectId,
      backgroundHash |-> a.canvasState.backgroundHash,
      bgBrightness |-> a.canvasState.bgBrightness,
      projectRotation |-> a.canvasState.projectRotation,
      backgroundFlipX |-> a.canvasState.backgroundFlipX,
      layers |-> [i \in 1..Len(a.layers) |-> SavedLayer(a.layers[i])] ]

saveCurrentWork(a) ==
    IF a.canvasState.backgroundElement = 0 THEN a
    ELSE [a EXCEPT !.autosave = << getSavableState(a) >>]

\* loadedLayers.filter(l => l !== null)
LoadedLayers(loadedLayers) == SelectSeq(loadedLayers, LAMBDA l : l # NoLayer)

\* createLayerFromSave: the layer, or NoLayer for the null of a layer whose
\* asset is not in the library or whose proxy image does not decode
createLayerFromSave(store, savedLayer) ==
    LET assetRecords == idbFindByHash(store, savedLayer.originalHash)
        restored == [ k \in (DOMAIN savedLayer \ {"proxyCanvasDataURL"})
                          \cup {"assetW", "mipW", "pix", "cache"} |->
                        IF k = "cache" THEN [canvas |-> NoCanvas, isValid |-> FALSE]
                        ELSE IF k = "assetW" THEN (IF assetRecords = << >> THEN 0 ELSE assetRecords[1].w)
                        ELSE IF k = "mipW" THEN savedLayer.proxyCanvasDataURL.w
                        ELSE IF k = "pix" THEN savedLayer.proxyCanvasDataURL.pix
                        ELSE IF k = "contentFrame" /\ savedLayer.type = "image"
                        THEN [x |-> 0, width |-> savedLayer.proxyCanvasDataURL.w]
                        ELSE IF k = "isOptimized" THEN savedLayer.type = "image" \/ savedLayer.isOptimized
                        ELSE savedLayer[k] ]
    IN IF savedLayer.type = "text" THEN restored
       ELSE IF savedLayer.type # "image" THEN NoLayer
       ELSE IF assetRecords = << >> THEN NoLayer
       ELSE IF savedLayer.proxyCanvasDataURL.w = 0 THEN NoLayer
       ELSE restored

\* a restore that sets the background as a new one, not as a restored one
RestoreOntoAsFresh(a, projectState, img) ==
    LET a2 == setBackground(clearCanvas(a), img, FALSE)
        loadedLayers == [i \in 1..Len(projectState.layers) |->
                            createLayerFromSave(a.assetStore, projectState.layers[i])]
    IN drawFrame(saveCurrentWork(
         [a2 EXCEPT !.canvasState.currentProjectId = projectState.currentProjectId,
                    !.layers = LoadedLayers(loadedLayers)]))

\* restoreProjectState from clearCanvas(true) on, the background decoded
RestoreOnto(a, projectState, img) ==
    LET a1 == clearCanvas(a)
        a2 == setBackground([a1 EXCEPT !.canvasState.projectRotation = projectState.projectRotation,
                                       !.canvasState.backgroundFlipX = projectState.backgroundFlipX],
                            img, TRUE)
        loadedLayers == [i \in 1..Len(projectState.layers) |->
                            createLayerFromSave(a.assetStore, projectState.layers[i])]
    IN drawFrame(saveCurrentWork(
         [a2 EXCEPT !.canvasState.bgBrightness =
                        IF projectState.bgBrightness = 0 THEN 10 ELSE projectState.bgBrightness,
                    !.canvasState.currentProjectId = projectState.currentProjectId,
                    !.layers = LoadedLayers(loadedLayers),
                    !.stepLog.toast = IF \E i \in 1..Len(loadedLayers) : loadedLayers[i] = NoLayer
                                      THEN "Skipping a layer: Invalid image data." ELSE @]))

\* restoreProjectState; threw is set where it rejects
restoreProjectState(a, projectState) ==
    LET bgAssets == idbFindByHash(a.assetStore, projectState.backgroundHash) IN
    IF projectState.backgroundHash = 0 \/ bgAssets = << >> \/ bgAssets[1].w = 0
    THEN [a EXCEPT !.stepLog.threw = TRUE]
    ELSE RestoreOnto(a, projectState, ElementOf(bgAssets[1]))

\* restoreProjectState up to bgDecodingPromise: the background is being decoded
restoreBegun(a, id, projectState) ==
    LET bgAssets == idbFindByHash(a.assetStore, projectState.backgroundHash) IN
    IF projectState.backgroundHash = 0 \/ bgAssets = << >>
    THEN [a EXCEPT !.stepLog.threw = TRUE]
    ELSE [a EXCEPT !.pending = @ \cup { Job("restoreBackground", id, projectState.backgroundHash,
                                            [projectState |-> projectState, img |-> bgAssets[1]]) }]

\* restoreProjectState from the end of Promise.all(layerPromises) on
layersLoaded(a, loadedLayers) ==
    drawFrame(saveCurrentWork(
        [a EXCEPT !.layers = LoadedLayers(loadedLayers),
                  !.stepLog.toast = IF \E i \in 1..Len(loadedLayers) : loadedLayers[i] = NoLayer
                                    THEN "Skipping a layer: Invalid image data."
                                    ELSE "Session Synced!"]))

\* the layers are awaited: a saved text layer is there within the same task,
\* a saved image layer when its images have been decoded
AwaitLayers(a2, job, loadedLayers) ==
    IF \A i \in 1..Len(job.layer.projectState.layers) :
           job.layer.projectState.layers[i].type # "image"
    THEN layersLoaded(a2, loadedLayers)
    ELSE [a2 EXCEPT !.pending = @ \cup { Job("restoreLayers", job.id, job.hash,
                                             [loadedLayers |-> loadedLayers]) }]

\* restoreProjectState from the end of bgDecodingPromise to the await of the
\* layers: the canvas is cleared and takes the background of the project
backgroundDecoded(a, job) ==
    LET projectState == job.layer.projectState
        a1 == clearCanvas([a EXCEPT !.pending = @ \ {job}])
        a2 == setBackground([a1 EXCEPT !.canvasState.projectRotation = projectState.projectRotation,
                                       !.canvasState.backgroundFlipX = projectState.backgroundFlipX],
                            ElementOf(job.layer.img), TRUE)
    IN IF job.layer.img.w = 0
       THEN [a EXCEPT !.pending = @ \ {job}, !.stepLog.threw = TRUE]
       ELSE AwaitLayers(
                [a2 EXCEPT !.canvasState.bgBrightness =
                               IF projectState.bgBrightness = 0 THEN 10
                               ELSE projectState.bgBrightness,
                           !.canvasState.currentProjectId = projectState.currentProjectId],
                job,
                [i \in 1..Len(projectState.layers) |->
                    createLayerFromSave(a.assetStore, projectState.layers[i])])

\* restoreCurrentWork: the catch block removes the autosave item
restoreCurrentWork(a) ==
    IF a.autosave = << >> THEN a
    ELSE LET a1 == restoreProjectState(a, a.autosave[1]) IN
         IF a1.stepLog.threw
         THEN [a1 EXCEPT !.stepLog.toast = "Could not restore work", !.autosave = << >>]
         ELSE [a1 EXCEPT !.stepLog.toast = "Work restored!"]

NoUpload == [files |-> << >>, intendedUse |-> "none", isFirstFile |-> TRUE]

\* handleFileUpload up to the start of its loop
handleFileUpload(a, files, intendedUse) ==
    LET validFiles == SelectSeq(files, LAMBDA file : file.type # "text/plain") IN
    IF validFiles = << >>
    THEN [a EXCEPT !.stepLog.toast = "No valid image files were selected."]
    ELSE [a EXCEPT !.upload = [files |-> SubSeq(validFiles, 1, Min(Len(validFiles), MAX_UPLOAD)),
                               intendedUse |-> intendedUse, isFirstFile |-> TRUE]]

FileFailed(a) == [a EXCEPT !.stepLog.threw = TRUE, !.stepLog.toast = "Error processing file."]

\* the 'background' branch of _processSingleFile
ProcessAsBackground(a, file, setOnCanvas) ==
    LET a1 == [a EXCEPT !.assetStore = saveAssetToLibrary(@, file, "background")] IN
    IF ~setOnCanvas THEN a1
    ELSE IF file.w = 0 THEN FileFailed(a1)
    ELSE setBackground(a1, ElementOf(file), FALSE)

\* the end of addImageLayer: the createdAt of the asset's record is refreshed
TouchAsset(a2, hash) ==
    LET existingAssets == idbFindByHash(a2.assetStore, hash) IN
    IF existingAssets = << >> THEN a2
    ELSE [a2 EXCEPT !.assetStore = PutNewest(@, existingAssets[1])]

\* addImageLayer awaited to its end: the decode, the dispatch and the refresh
AddUploadedLayer(a1, file) ==
    IF file.w = 0 THEN FileFailed(a1)
    ELSE TouchAsset(dispatch([a1 EXCEPT !.nextId = @ + 1],
                             Action("LAYER_ADDED", [newLayer |-> ImageLayer(a1.nextId, file, a1.dom)]),
                             FALSE),
                    file.hash)

\* _processSingleFile
ProcessSingleFile(a, file, intendedUse, setOnCanvas) ==
    IF intendedUse = "background" THEN ProcessAsBackground(a, file, setOnCanvas)
    ELSE IF a.canvasState.backgroundElement = 0
    THEN IF setOnCanvas THEN ProcessAsBackground(a, file, TRUE) ELSE a
    ELSE AddUploadedLayer([a EXCEPT !.assetStore = saveAssetToLibrary(@, file, "asset")], file)

\* one turn of the loop of handleFileUpload
ProcessNextFile(a) ==
    [ProcessSingleFile(a, Head(a.upload.files), a.upload.intendedUse, a.upload.isFirstFile)
        EXCEPT !.upload = IF Len(a.upload.files) = 1 THEN NoUpload
                          ELSE [a.upload EXCEPT !.files = Tail(@), !.isFirstFile = FALSE]]


\* the 'sync_data' case of handleServerMessage
syncData(a, projectState) ==
    LET a1 == restoreProjectState(a, projectState) IN
    IF a1.stepLog.threw THEN a1 ELSE [a1 EXCEPT !.stepLog.toast = "Session Synced!"]

\* handleServerMessage after saveAssetToLibrary and createLayerFromSrc have resolved
hydrated(a, job) ==
    dispatch([a EXCEPT !.pending = @ \ {job},
                       !.assetStore = saveAssetToLibrary(@,
                           [hash |-> job.hash, w |-> job.layer.assetW, h |-> job.layer.assetW, bytes |-> 1],
                           "asset")],
             Action("LAYER_ADDED",
                    [newLayer |-> [job.layer EXCEPT !.cache = [canvas |-> NoCanvas, isValid |-> FALSE]]]),
             TRUE)

\* onScrubEnd of a background filter slider
changeBackgroundFilter(a, property, value) ==
    dispatch(a, Action("BACKGROUND_FILTER_CHANGED", [property |-> property, value |-> value]), FALSE)

\* deleteAssetFromLibrary
deleteAssetFromLibrary(store, assetId) ==
    LET found == SelectSeq(store, LAMBDA r : r.id = assetId) IN
    IF found = << >> THEN store
    ELSE IF found[1].referenceCount > 0
    THEN PutInPlace(store, [found[1] EXCEPT !.isUserDeleted = TRUE])
    ELSE idbDelete(store, assetId)

\* the hashes a project state refers to: its background and its image layers
HashesOf(projectState) ==
    (IF projectState.backgroundHash # 0 THEN {projectState.backgroundHash} ELSE {})
    \cup { projectState.layers[i].originalHash :
             i \in { j \in 1..Len(projectState.layers) :
                        /\ projectState.layers[j].type = "image"
                        /\ projectState.layers[j].originalHash # 0 } }

\* the first loop of _updateAssetReferences: one more reference to assets[0]
RECURSIVE AddReferences(_, _)
AddReferences(store, addedHashes) ==
    IF addedHashes = {} THEN store
    ELSE LET hash == CHOOSE h \in addedHashes : TRUE
             assets == idbFindByHash(store, hash)
         IN AddReferences(
                IF assets = << >> THEN store
                ELSE PutInPlace(store, [assets[1] EXCEPT !.referenceCount = @ + 1,
                                                         !.isUserDeleted = FALSE]),
                addedHashes \ {hash})

\* the second loop: one reference less, and a hidden asset goes with its last
RECURSIVE RemoveReferences(_, _)
RemoveReferences(store, removedHashes) ==
    IF removedHashes = {} THEN store
    ELSE LET hash == CHOOSE h \in removedHashes : TRUE
             assets == idbFindByHash(store, hash)
             \* Math.max(0, (asset.referenceCount || 1) - 1)
             count == IF assets = << >> THEN 0 ELSE Max(0, Max(assets[1].referenceCount, 1) - 1)
         IN RemoveReferences(
                IF assets = << >> THEN store
                ELSE IF count = 0 /\ assets[1].isUserDeleted THEN idbDelete(store, assets[1].id)
                ELSE PutInPlace(store, [assets[1] EXCEPT !.referenceCount = count]),
                removedHashes \ {hash})

updateAssetReferences(store, newHashes, oldHashes) ==
    RemoveReferences(AddReferences(store, newHashes \ oldHashes), oldHashes \ newHashes)

\* the key the 'projects' store gives the next record
FreshProjectKey(projects) ==
    IF projects = {} THEN 1
    ELSE 1 + CHOOSE k \in { r.id : r \in projects } : \A r \in projects : r.id <= k

\* saveProjectToLibrary from the references on, for a canvas with a background
SaveProjectRecord(a, oldHashes) ==
    LET projectState == getSavableState(a)
        id == IF a.canvasState.currentProjectId # 0 THEN a.canvasState.currentProjectId
              ELSE FreshProjectKey(a.projectStore)
    IN [a EXCEPT !.assetStore =
                     enforceQuota(updateAssetReferences(@, HashesOf(projectState), oldHashes),
                                  QUOTA_MEGABYTES),
                 !.projectStore = { r \in @ : r.id # id }
                                  \cup { [id |-> id, projectState |-> projectState] },
                 !.canvasState.currentProjectId = id,
                 !.autosave = << [projectState EXCEPT !.currentProjectId = id] >>,
                 !.stepLog.toast = IF a.canvasState.currentProjectId # 0
                                   THEN "Project updated in library!"
                                   ELSE "Project saved to library!"]

saveProjectToLibrary(a) ==
    IF a.canvasState.backgroundElement = 0
    THEN [a EXCEPT !.stepLog.toast = "A background is required to save a project."]
    ELSE LET oldRecords == { r \in a.projectStore : r.id = a.canvasState.currentProjectId } IN
         SaveProjectRecord(a, UNION { HashesOf(r.projectState) : r \in oldRecords })

\* _actuallyLoadProject after restoreProjectState has settled
LoadedProject(a1, projectState) ==
    IF a1.stepLog.threw
    THEN [a1 EXCEPT !.stepLog.toast = "Error: Could not load project."]
    ELSE [a1 EXCEPT !.assetStore = updateAssetReferences(@, HashesOf(projectState), {}),
                    !.stepLog.toast = "Project loaded."]

actuallyLoadProject(a, projectId) ==
    IF \A r \in a.projectStore : r.id # projectId
    THEN [a EXCEPT !.stepLog.threw = TRUE,
                   !.stepLog.toast = "Error: Could not load project."]
    ELSE LET projectRecord == CHOOSE r \in a.projectStore : r.id = projectId
             projectState == [projectRecord.projectState EXCEPT !.currentProjectId = projectId]
         IN LoadedProject(restoreProjectState(a, projectState), projectState)

deleteProjectFromLibrary(a, projectId) ==
    IF \A r \in a.projectStore : r.id # projectId THEN a
    ELSE LET projectRecord == CHOOSE r \in a.projectStore : r.id = projectId IN
         [a EXCEPT !.projectStore = @ \ {projectRecord},
                   !.assetStore = RemoveReferences(@, HashesOf(projectRecord.projectState)),
                   !.stepLog.toast = "Project deleted from library."]

\* dedupeExistingAssetsByHashKeepNewest: of the records of one hash only the
\* newest stays
dedupeExistingAssetsByHashKeepNewest(store) ==
    LET Position(rec) == CHOOSE i \in 1..Len(store) : store[i].id = rec.id IN
    SelectSeq(store, LAMBDA rec :
        \A j \in 1..Len(store) : store[j].hash = rec.hash => j <= Position(rec))

\* the catch and finally blocks init runs when Promise.race settles
settleRace(a, outcome) ==
    IF a.startup.race # "pending" THEN a
    ELSE [a EXCEPT !.startup.race = outcome,
                   !.startup.loadingScreen = FALSE,
                   !.startup.toast =
                       IF outcome = "timeout" THEN "Loading took a while, but you can start working."
                       ELSE IF outcome = "failed" THEN "Could not restore a previous session."
                       ELSE @]

\* setupPromise up to the end of the dedupe: idbOpen rejects without IndexedDB
setupDedupe(a) ==
    IF ~a.startup.indexedDB
    THEN settleRace([a EXCEPT !.startup.setup = "failed"], "failed")
    ELSE [a EXCEPT !.assetStore = dedupeExistingAssetsByHashKeepNewest(@),
                   !.startup.setup = "restore"]

\* the listeners installed and the first frame, the tail of setupPromise
setupTail(a1) ==
    LET a2 == drawFrame([a1 EXCEPT !.startup.listeners = TRUE, !.startup.setup = "done"]) IN
    IF a2.startup.minDisplay THEN settleRace(a2, "fulfilled") ELSE a2

\* setupPromise from the restore of the autosaved work to its end
setupRestore(a) ==
    setupTail(IF a.startup.joining THEN a ELSE restoreCurrentWork(a))

\* the 1500 ms of minDisplayTime are over
minDisplayTime(a) ==
    LET a1 == [a EXCEPT !.startup.minDisplay = TRUE] IN
    IF a1.startup.setup = "done" THEN settleRace(a1, "fulfilled") ELSE a1

\* the 8000 ms of safetyTimeout are over
safetyTimeout(a) == settleRace(a, "timeout")

\* the application object a reload of the page constructs: the stores and
\* the autosave item are all that is left of the session before
Reloaded(a) ==
    [a EXCEPT !.layers = << >>, !.activeLayerId = 0, !.canvasState = ClearedCanvasState,
              !.dom = [w |-> 0, h |-> 0], !.movieInteraction = IdleInteraction,
              !.scrubbingMode = "none", !.animationFrameId = 0, !.isPanning = FALSE,
              !.isEraserArmed = FALSE, !.staticCaches = [bg |-> << >>, fg |-> << >>],
              !.screen = << >>, !.pending = {}, !.socket = FALSE, !.glScene = << >>,
              !.viewState = ViewAtRest, !.targetViewState = ViewAtRest,
              !.isAnimatingView = FALSE, !.zoomSnapTimeout = 0, !.upload = NoUpload,
              !.timeouts = NoTimeouts,
              !.animatedRender.isAnimatingRender = FALSE, !.animatedRender.frames = 0,
              !.animatedRender.lastFrame = "none"]

-----------------------------------------------------------------------------
(* Initial state and the steps of the environment *)

\* the application object after construction
InitCore ==
    /\ layers = << >>
    /\ activeLayerId = 0
    /\ canvasState = ClearedCanvasState
    /\ dom = [w |-> 0, h |-> 0]
    /\ movieInteraction = IdleInteraction
    /\ scrubbingMode = "none"
    /\ animationFrameId = 0
    /\ isPanning = FALSE
    /\ isEraserArmed = FALSE
    /\ staticCaches = [bg |-> << >>, fg |-> << >>]
    /\ screen = << >>
    /\ nextId = 1
    /\ pending = {}
    /\ socket = FALSE
    /\ stepLog = [op |-> "init", dispatched |-> << >>, threw |-> FALSE, toast |-> ""]
    /\ glScene = << >>
    /\ viewState = ViewAtRest
    /\ targetViewState = ViewAtRest
    /\ isAnimatingView = FALSE
    /\ zoomSnapTimeout = 0
    /\ projectStore = {}
    /\ autosave = << >>
    /\ upload = NoUpload
    /\ mipmapRun = NoMipmapRun
    /\ timeouts = NoTimeouts
    /\ animatedRender = [isAnimatingRender |-> FALSE, frames |-> 0, lastFrame |-> "none",
                         now |-> 0, createdAt |-> << >>]

\* init has run to its end: the setup is done and the loading screen hidden
Started ==
    [ setup |-> "done", joining |-> FALSE, indexedDB |-> TRUE, minDisplay |-> TRUE,
      race |-> "fulfilled", loadingScreen |-> FALSE, listeners |-> TRUE, toast |-> "" ]

InitApp ==
    /\ startup = Started
    /\ InitCore


\* a session over the library the palettes are filled from
Init == InitApp /\ assetStore = Library

\* the first session of a browser: the stores are empty
FirstLaunch == InitApp /\ assetStore = << >>

DefaultBackground == CHOOSE b \in Backgrounds : b.element = 1

LayerIds == { layers[i].id : i \in 1..Len(layers) }

Decoding == { job \in pending : job.kind = "decode" }

\* room for one more layer within the bounds
CanAddLayer ==
    /\ Len(layers) + Cardinality(Decoding) < MaxLayers
    /\ nextId + Cardinality(Decoding) <= MaxIds

\* the layer the eraser or the segmentation would edit has room for one more edit
PixRoom(a) ==
    LET idx == getActiveIndex(a) IN
    idx # 0 => a.layers[idx].pix < MaxPix

\* every layer stays within the largest size explored and within MaxDrift
\* pixels right of and below the centre of the canvas
Admissible(a) ==
    \A i \in 1..Len(a.layers) :
        LET l == a.layers[i] IN
        /\ l.x - a.dom.w \div 2 \in 0..MaxDrift
        /\ l.y - a.dom.h \div 2 \in 0..MaxDrift
        /\ l.size <= MaxSize /\ l.fontSize <= MaxFontSize

InstallAdmissible(a) == Admissible(a) /\ Install(a)

\* where the pointer goes down: a layer's centre, a handle of the active layer,
\* or the empty corner of the canvas
PressPoints ==
    LET idx == getActiveIndex(Cur) IN
    { Point(layers[i].x, layers[i].y) : i \in 1..Len(layers) }
    \cup (IF idx = 0 THEN {}
          ELSE { getHandleWorldPosition(layers[idx], "br"), RotationHandlePosition(layers[idx]) })
    \cup { Point(0, 0) }

CentrePoints == { Point(layers[i].x, layers[i].y) : i \in 1..Len(layers) }

\* where the pointer moves to during the gesture in progress
MovePoints ==
    LET mi == movieInteraction
        idx == getActiveIndex(Cur)
        l == layers[idx]
        r == getLayerMetrics(l).dHeight \div 2 + ROTATION_HANDLE_SCREEN_OFFSET
    IN IF idx = 0 THEN { Point(0, 0) }
       ELSE CASE mi.type = "drag" ->
                    { Point(dom.w \div 2 + d[1] + mi.offsetX, dom.h \div 2 + d[2] + mi.offsetY) :
                        d \in DragTargets }
              [] mi.type = "resize" ->
                    { Point(2 * mi.startHandlePoint.x - mi.anchorPoint.x,
                            2 * mi.startHandlePoint.y - mi.anchorPoint.y),
                      mi.startHandlePoint }
              [] mi.type = "rotate" ->
                    { Point(mi.initialState.x + r, mi.initialState.y),
                      Point(mi.initialState.x, mi.initialState.y - r) }
              [] OTHER -> { Point(l.x, l.y) }

SetBackground(b) ==
    /\ canvasState.backgroundElement # b.element
    /\ ~movieInteraction.active
    /\ Install(setBackground(Enter("setBackground"), b, FALSE))

\* a click on a background of the library, the present one included
ChooseLibraryBackground(b) ==
    /\ ~movieInteraction.active
    /\ Install(setBackground(Enter("setBackground"), b, FALSE))

AddTextLayer ==
    /\ CanAddLayer
    /\ ~movieInteraction.active
    /\ canvasState.backgroundElement # 0
    /\ Install(addTextLayer(Enter("addTextLayer")))

AddImageLayer(asset, needsOptimization) ==
    /\ CanAddLayer
    /\ ~movieInteraction.active
    /\ canvasState.backgroundElement # 0
    /\ Install(addImageLayer(Enter("addImageLayer"), asset, needsOptimization))

ImageDecoded(job) ==
    /\ job.kind = "decode"
    /\ Install(imageDecoded(Enter("imageDecoded"), job))

TranscodeDone(job) ==
    /\ job.kind = "transcode"
    /\ Install(transcodeDone(Enter("transcodeDone"), job))

RemoveBackground ==
    /\ { job \in pending : job.kind = "segment" } = {}
    /\ getActiveIndex(Cur) # 0
    /\ layers[getActiveIndex(Cur)].type = "image"
    /\ PixRoom(Cur)
    /\ Install(removeBgForActiveImageLayer(Enter("removeBackground")))

SegmentationDone(job) ==
    /\ job.kind = "segment"
    /\ \A i \in 1..Len(layers) : layers[i].id = job.id => layers[i].pix < MaxPix
    /\ Install(segmentationDone(Enter("segmentationDone"), job))

SegmentationFailed(job) ==
    /\ job.kind = "segment"
    /\ Install(segmentationFailed(Enter("segmentationFailed"), job))

ChangeProperty(effect, property, value, phase) ==
    /\ getActiveIndex(Cur) # 0
    /\ ~movieInteraction.active
    /\ Install(changeProperty(Enter("changeProperty"), effect, property, value, phase))

SetEraserMode ==
    /\ ~movieInteraction.active
    /\ getActiveIndex(Cur) # 0
    /\ layers[getActiveIndex(Cur)].type = "image"
    /\ Install(setEraserMode(Enter("setEraserMode")))

PointerDown(point, button) ==
    /\ ~movieInteraction.active
    /\ canvasState.backgroundElement # 0
    /\ isEraserArmed => PixRoom(Cur)
    /\ Install(handleMovieInteractionStart(Enter("pointerDown"), point, button))

PointerMove(point) ==
    /\ movieInteraction.active
    /\ movieInteraction.type = "erase" => PixRoom(Cur)
    /\ InstallAdmissible(handleMovieInteractionMove(Enter("pointerMove"), point, NoMovement))

\* a move of the pointer that may take the layer anywhere on the canvas
PointerMoveFar(point) ==
    /\ movieInteraction.active
    /\ movieInteraction.type \in {"drag", "resize"}
    /\ Install(handleMovieInteractionMove(Enter("pointerMove"), point, NoMovement))

\* the pan the view is heading for is a whole number of half ranges
OnHalfRange(pan, extent, scale) ==
    (scale > Unit /\ extent > 0) => (2 * pan) % (extent * (scale - Unit)) = 0

ViewAdmissible(a) ==
    /\ OnHalfRange(a.targetViewState.pan.x, a.dom.w, a.targetViewState.scale)
    /\ OnHalfRange(a.targetViewState.pan.y, a.dom.h, a.targetViewState.scale)

InstallViewAdmissible(a) == ViewAdmissible(a) /\ Install(a)

\* a move of the pointer while the middle button drags the view
PointerPan(movement) ==
    /\ movieInteraction.active
    /\ movieInteraction.type = "pan"
    /\ InstallViewAdmissible(handleMovieInteractionMove(Enter("pointerMove"), NoPoint, movement))

Wheel(e) == InstallViewAdmissible(handleCanvasWheel(Enter("wheel"), e))

\* the requestAnimationFrame callback of the view animation
ViewAnimationFrame ==
    /\ isAnimatingView
    /\ Install(updateViewAnimation(Enter("viewAnimation")))

\* the snap timer armed by a zoom that ends near scale 1
ZoomSnapTimeout ==
    \E t \in timeouts.pending :
        /\ t.callback = "resetView"
        /\ Install(resetView([Enter("zoomSnap") EXCEPT !.timeouts.pending = @ \ {t}]))

PointerUp(thrown) ==
    /\ movieInteraction.active
    /\ Install(handleMovieInteractionEnd(Enter("pointerUp"), thrown))

\* one turn of the requestAnimationFrame loop
RenderLoopFrame ==
    /\ animationFrameId # 0
    /\ Install(drawFrame(Enter("renderLoop")))

\* the size keys are pressed where 1.05 and 0.95 of the size are whole numbers
KeyExact(key) ==
    LET idx == getActiveIndex(Cur)
        v == IF layers[idx].type = "image" THEN layers[idx].size ELSE layers[idx].fontSize
    IN (key \in {"d", "f"} /\ idx # 0) => (v * 5) % 100 = 0

KeyDown(key) ==
    /\ KeyExact(key)
    /\ InstallAdmissible(handleKeyDown(Enter("keyDown"), key))

DuplicateLayer(id) ==
    /\ CanAddLayer
    /\ ~movieInteraction.active
    /\ Install(duplicateLayer(Enter("duplicateLayer"), id))

DeleteLayer(id) ==
    /\ ~movieInteraction.active
    /\ Install(deleteMovieLayer(Enter("deleteLayer"), id))

ToggleLock(id) ==
    /\ ~movieInteraction.active
    /\ Install(toggleLock(Enter("toggleLock"), id))

SelectFromPalette(id) ==
    /\ ~movieInteraction.active
    /\ activeLayerId # id
    /\ Install(selectFromPalette(Enter("selectFromPalette"), id))

PaletteDrop(newOrder) ==
    /\ ~movieInteraction.active
    /\ Install(paletteDrop(Enter("paletteDrop"), newOrder))

ClearCanvas ==
    /\ ~movieInteraction.active
    /\ canvasState.backgroundElement # 0
    /\ Install(clearCanvas(Enter("clearCanvas")))

RenderScene ==
    /\ canvasState.backgroundElement # 0
    /\ Install([Enter("renderScene") EXCEPT !.glScene = renderScene(layers)])

JoinSession ==
    /\ ~socket
    /\ Install([Enter("joinSession") EXCEPT !.socket = TRUE])

ReceiveAction(action) ==
    /\ socket
    /\ Install(handleServerMessage(Enter("handleServerMessage"), action))

BackgroundFetched(job) ==
    /\ job.kind = "bgFetch"
    /\ Install(backgroundFetched(Enter("backgroundFetched"), job))

-----------------------------------------------------------------------------
(* Compositing: backgrounds, layers, edit panels, eraser strokes, async results *)

ActiveType == IF getActiveIndex(Cur) = 0 THEN "none" ELSE layers[getActiveIndex(Cur)].type

HasLayerOfType(type) == \E i \in 1..Len(layers) : layers[i].type = type

\* one text layer and one image layer; the opacity slider is worked on the image,
\* the shadow checkbox and the text box on the text layer
Next ==
    \/ \E b \in Backgrounds : SetBackground(b)
    \/ ~HasLayerOfType("text") /\ AddTextLayer
    \/ \E asset \in Assets :
            ~HasLayerOfType("image") /\ pending = {} /\ AddImageLayer(asset, FALSE)
    \/ \E job \in pending : ImageDecoded(job)
    \/ \E v \in OpacityValues :
            ActiveType = "image" /\ ChangeProperty("PROPERTY", "opacity", v, "input")
    \/ \E v \in BOOLEAN :
            ActiveType = "text" /\ ChangeProperty("SHADOW", "enabled", v, "change")
    \/ \E v \in TextValues : ChangeProperty("PROPERTY", "text", v, "input")
    \/ SetEraserMode
    \/ isEraserArmed /\ \E point \in CentrePoints : PointerDown(point, 0)
    \/ movieInteraction.type = "erase" /\ \E point \in MovePoints : PointerMove(point)
    \/ PointerUp("none")
    \/ \E key \in {"q", "w"} : ~movieInteraction.active /\ KeyDown(key)
    \/ \E id \in LayerIds : SelectFromPalette(id)
    \/ \E id \in LayerIds : DeleteLayer(id)
    \/ RenderScene

Spec == Init /\ [][Next]_vars

-----------------------------------------------------------------------------
(* Raster content: one image layer, its strokes and its asynchronous jobs *)

NextContent ==
    \/ \E b \in Backgrounds : SetBackground(b)
    \/ \E asset \in Assets :
            layers = << >> /\ Decoding = {} /\ AddImageLayer(asset, TRUE)
    \/ \E job \in pending : ImageDecoded(job)
    \/ \E job \in pending : TranscodeDone(job)
    \/ RemoveBackground
    \/ \E job \in pending : SegmentationDone(job)
    \/ \E v \in OpacityValues : ChangeProperty("PROPERTY", "opacity", v, "change")
    \/ \E v \in BOOLEAN : ChangeProperty("BORDER", "enabled", v, "input")
    \/ SetEraserMode
    \/ isEraserArmed /\ \E point \in CentrePoints : PointerDown(point, 0)
    \/ movieInteraction.type = "erase" /\ \E point \in MovePoints : PointerMove(point)
    \/ PointerUp("none")
    \/ ClearCanvas
    \/ \E id \in LayerIds : DeleteLayer(id)

SpecContent == Init /\ [][NextContent]_vars

-----------------------------------------------------------------------------
(* Pointer gestures on a single layer *)

\* the proportional fields of l agree with its absolute ones on canvas d
ProportionsCurrent(l, d) ==
    /\ l.propX = Rat(l.x, d.w)
    /\ l.propY = Rat(l.y, d.h)
    /\ l.propSize = Rat(IF l.type = "image" THEN l.size ELSE l.fontSize, MasterDim(d))

\* no gesture has yet left a layer rotated or with stale proportions
Settled ==
    \A i \in 1..Len(layers) : ProportionsCurrent(layers[i], dom) /\ layers[i].rot = 0

\* a new gesture starts only while the layers are settled
NextGesture ==
    \/ canvasState.backgroundElement = 0 /\ SetBackground(DefaultBackground)
    \/ layers = << >> /\ AddTextLayer
    \/ \E asset \in Assets :
            layers = << >> /\ Decoding = {} /\ AddImageLayer(asset, FALSE)
    \/ \E job \in pending : ImageDecoded(job)
    \/ SetEraserMode
    \/ \E point \in PressPoints, button \in {0, 1} : Settled /\ PointerDown(point, button)
    \/ \E point \in MovePoints : PointerMove(point)
    \/ \E thrown \in Thrown : PointerUp(thrown)
    \/ RenderLoopFrame

SpecGesture == Init /\ [][NextGesture]_vars

-----------------------------------------------------------------------------
(* Locked layers: one layer, the lock toggle, pointer and keyboard input *)

NextLock ==
    \/ canvasState.backgroundElement = 0 /\ SetBackground(DefaultBackground)
    \/ layers = << >> /\ AddTextLayer
    \/ \E asset \in Assets :
            layers = << >> /\ Decoding = {} /\ AddImageLayer(asset, FALSE)
    \/ \E job \in pending : ImageDecoded(job)
    \/ \E id \in LayerIds : ToggleLock(id)
    \/ SetEraserMode
    \/ \E point \in PressPoints : Settled /\ PointerDown(point, 0)
    \/ \E point \in MovePoints : PointerMove(point)
    \/ PointerUp("none")
    \/ RenderLoopFrame
    \/ \E key \in {"d", "f", "delete"} : ~movieInteraction.active /\ KeyDown(key)

SpecLock == Init /\ [][NextLock]_vars

-----------------------------------------------------------------------------
(* Scrubbing: a drag among two text layers, with the reorder keys *)

NextScrub ==
    \/ canvasState.backgroundElement = 0 /\ SetBackground(DefaultBackground)
    \/ AddTextLayer
    \/ \E point \in CentrePoints : Settled /\ PointerDown(point, 0)
    \/ \E point \in MovePoints : PointerMove(point)
    \/ PointerUp("none")
    \/ RenderLoopFrame
    \/ \E key \in {"q", "w"} : KeyDown(key)

SpecScrub == Init /\ [][NextScrub]_vars

-----------------------------------------------------------------------------
(* Layer list: the handlers that add, remove, reorder and re-lay-out layers *)

\* the thumbnails of dom.assetPalette: renderLayerPalette gives one to every
\* image layer and none to a text layer
PaletteIds == { layers[i].id : i \in { k \in 1..Len(layers) : layers[k].type = "image" } }

\* the orders the thumbnails can be dropped into, bottom first
PaletteOrders ==
    { order \in [1..Cardinality(PaletteIds) -> PaletteIds] :
        \A i, j \in 1..Cardinality(PaletteIds) : i # j => order[i] # order[j] }

NextFlow ==
    \/ \E b \in Backgrounds : SetBackground(b)
    \/ AddTextLayer
    \/ \E asset \in Assets : pending = {} /\ AddImageLayer(asset, FALSE)
    \/ \E job \in pending : ImageDecoded(job)
    \/ \E order \in PaletteOrders : PaletteIds # {} /\ PaletteDrop(order)
    \/ \E key \in {"q", "w"} : KeyDown(key)
    \/ \E v \in TextValues : ChangeProperty("PROPERTY", "text", v, "change")
    \/ \E id \in LayerIds : SelectFromPalette(id)
    \/ \E id \in LayerIds : DeleteLayer(id)
    \/ ClearCanvas

SpecFlow == Init /\ [][NextFlow]_vars

-----------------------------------------------------------------------------
(* Collaboration: actions of a peer, and the local actions that are broadcast *)

\* the text layer a peer adds: the peer's id, on the peer's canvas
PeerLayer == TextLayer(MaxIds + 1, [w |-> 100, h |-> 100])

RemoteActions ==
    { Action("BACKGROUND_CHANGED", [backgroundHash |-> hash]) : hash \in {0, 1, 2} }
    \cup { Action("LAYER_DELETED", [layerId |-> id]) : id \in LayerIds }
    \cup { Action("LAYER_PROPERTY_CHANGED", [layerId |-> id, property |-> "opacity", value |-> 5]) :
             id \in LayerIds }
    \cup (IF PeerLayer.id \in LayerIds \/ Len(layers) >= MaxLayers THEN {}
          ELSE { Action("LAYER_ADDED", [newLayer |-> PeerLayer]) })

NextPeer ==
    \/ JoinSession
    \/ \E action \in RemoteActions : ReceiveAction(action)
    \/ \E job \in pending : BackgroundFetched(job)
    \/ \E b \in Backgrounds : SetBackground(b)
    \/ layers = << >> /\ AddTextLayer
    \/ \E id \in LayerIds : DeleteLayer(id)

SpecPeer == Init /\ [][NextPeer]_vars

-----------------------------------------------------------------------------
(* Z-order: a stack of text layers reordered from the keyboard and by a peer *)

\* the reorders a peer can send: known and unknown ids, one or two places
ReorderActions ==
    { Action("LAYER_REORDERED", [layerId |-> id, delta |-> delta]) :
        id \in 1..(MaxStack + 1), delta \in {-2, -1, 1, 2} }

\* addTextLayer while the stack has room
StackTextLayer ==
    /\ Len(layers) < MaxStack
    /\ nextId <= MaxStack
    /\ canvasState.backgroundElement # 0
    /\ Install(addTextLayer(Enter("addTextLayer")))

NextReorder ==
    \/ canvasState.backgroundElement = 0 /\ SetBackground(DefaultBackground)
    \/ StackTextLayer
    \/ JoinSession
    \/ \E action \in ReorderActions : ReceiveAction(action)
    \/ \E key \in {"q", "w"} : KeyDown(key)
    \/ \E id \in LayerIds : SelectFromPalette(id)
    \/ \E id \in LayerIds : DeleteLayer(id)

SpecReorder == Init /\ [][NextReorder]_vars

-----------------------------------------------------------------------------
(* Hit testing: stacked opaque, hollow and text layers under the pointer *)

\* where a click lands: the centre of a layer, a point of its rim, the empty
\* corner of the canvas
HitPoints ==
    { Point(layers[i].x, layers[i].y) : i \in 1..Len(layers) }
    \cup { Point(layers[i].x + (3 * getLayerMetrics(layers[i]).dWidth) \div 8, layers[i].y) :
             i \in 1..Len(layers) }
    \cup { Point(0, 0) }

NextHit ==
    \/ canvasState.backgroundElement = 0 /\ SetBackground(DefaultBackground)
    \/ \E asset \in Assets \cup HollowAssets : Decoding = {} /\ AddImageLayer(asset, FALSE)
    \/ \E job \in pending : ImageDecoded(job)
    \/ ~HasLayerOfType("text") /\ AddTextLayer
    \/ \E id \in LayerIds : ToggleLock(id)
    \/ \E point \in HitPoints : Settled /\ PointerDown(point, 0)
    \/ \E point \in MovePoints : PointerMove(point)
    \/ PointerUp("none")
    \/ RenderLoopFrame

SpecHit == Init /\ [][NextHit]_vars

-----------------------------------------------------------------------------
(* Project rotation: the key 'r', backgrounds of the library, a rotating peer *)

RotationActions ==
    { Action("PROJECT_ROTATED", [none |-> 0]) }
    \cup { Action("BACKGROUND_CHANGED", [backgroundHash |-> b.hash]) :
             b \in WideBackgrounds \cup {DefaultBackground} }

NextRotate ==
    \/ \E b \in WideBackgrounds \cup {DefaultBackground} : ChooseLibraryBackground(b)
    \/ layers = << >> /\ AddTextLayer
    \/ \E key \in {"r", "t"} : KeyDown(key)
    \/ ClearCanvas
    \/ JoinSession
    \/ \E action \in RotationActions : ReceiveAction(action)
    \/ \E job \in pending : BackgroundFetched(job)

SpecRotate == Init /\ [][NextRotate]_vars

-----------------------------------------------------------------------------
(* Re-layout: layers dragged about a canvas whose background then changes *)

EdgePoints ==
    { Point(dom.w + d[1] + movieInteraction.offsetX, dom.h \div 2 + d[2] + movieInteraction.offsetY) :
        d \in EdgeTargets }

NextRelayout ==
    \/ \E b \in WideBackgrounds \cup DoubleBackgrounds : ChooseLibraryBackground(b)
    \/ layers = << >> /\ AddTextLayer
    \/ \E asset \in Assets : layers = << >> /\ Decoding = {} /\ AddImageLayer(asset, FALSE)
    \/ \E job \in pending : ImageDecoded(job)
    \/ \E point \in CentrePoints : Settled /\ PointerDown(point, 0)
    \/ \E point \in EdgePoints : PointerMoveFar(point)
    \/ PointerUp("none")
    \/ KeyDown("r")

SpecRelayout == Init /\ [][NextRelayout]_vars

-----------------------------------------------------------------------------
(* Corner resize: a layer grabbed by a corner and pulled along its diagonal *)

CornerPoints ==
    { getHandleWorldPosition(layers[i], h) :
        i \in { j \in 1..Len(layers) : layers[j].id = activeLayerId }, h \in {"tl", "tr", "bl", "br"} }

DiagonalPoints ==
    LET mi == movieInteraction IN
    { Point(mi.anchorPoint.x + (q * (mi.startHandlePoint.x - mi.anchorPoint.x)) \div 4,
            mi.anchorPoint.y + (q * (mi.startHandlePoint.y - mi.anchorPoint.y)) \div 4) :
        q \in ResizeQuarters }

NextResize ==
    \/ canvasState.backgroundElement = 0 /\ SetBackground(DefaultBackground)
    \/ layers = << >> /\ AddTextLayer
    \/ \E asset \in Assets : layers = << >> /\ Decoding = {} /\ AddImageLayer(asset, FALSE)
    \/ \E job \in pending : ImageDecoded(job)
    \/ \E point \in CornerPoints : Settled /\ PointerDown(point, 0)
    \/ \E point \in DiagonalPoints : movieInteraction.type = "resize" /\ PointerMoveFar(point)
    \/ PointerUp("none")
    \/ RenderLoopFrame

SpecResize == Init /\ [][NextResize]_vars

-----------------------------------------------------------------------------
(* Selection: layers selected and deleted here and by a peer, under the pointer, *)
(* the keyboard and the eraser                                                  *)

\* a peer selects or deletes a layer, which this side may not have
SelectionActions ==
    { Action(type, [layerId |-> id]) : type \in {"SELECT_LAYER", "LAYER_DELETED"}, id \in 1..(MaxIds + 1) }

LayerKeys == {"q", "w", "d", "f", "delete"}

NextSelect ==
    \/ canvasState.backgroundElement = 0 /\ SetBackground(DefaultBackground)
    \/ layers = << >> /\ Decoding = {} /\ AddTextLayer
    \/ \E asset \in Assets : layers = << >> /\ Decoding = {} /\ AddImageLayer(asset, FALSE)
    \/ \E job \in pending : ImageDecoded(job)
    \/ JoinSession
    \/ \E action \in SelectionActions : ReceiveAction(action)
    \/ SetEraserMode
    \/ \E point \in CentrePoints \cup {Point(0, 0)} : Settled /\ PointerDown(point, 0)
    \/ \E point \in MovePoints : PointerMove(point)
    \/ PointerUp("none")
    \/ \E key \in LayerKeys : ~movieInteraction.active /\ KeyDown(key)
    \/ \E id \in LayerIds : DeleteLayer(id)

SpecSelect == Init /\ [][NextSelect]_vars

-----------------------------------------------------------------------------
(* Background removal: an image and a text layer, the model run or its failure, *)
(* with drags and key presses in between                                        *)

NextRemoval ==
    \/ canvasState.backgroundElement = 0 /\ SetBackground(DefaultBackground)
    \/ ~HasLayerOfType("text") /\ AddTextLayer
    \/ \E asset \in Assets : ~HasLayerOfType("image") /\ Decoding = {} /\ AddImageLayer(asset, FALSE)
    \/ \E job \in pending : ImageDecoded(job)
    \/ RemoveBackground
    \/ \E job \in pending : SegmentationDone(job)
    \/ \E job \in pending : SegmentationFailed(job)
    \/ \E point \in CentrePoints : Settled /\ PointerDown(point, 0)
    \/ \E point \in MovePoints : PointerMove(point)
    \/ PointerUp("none")
    \/ \E key \in {"d", "q"} : ~movieInteraction.active /\ KeyDown(key)

SpecRemoval == Init /\ [][NextRemoval]_vars

-----------------------------------------------------------------------------
(* Drag: a new image on the 800 by 600 canvas, dragged by its centre *)

DragPoints == { Point(dom.w \div 2 + d[1], dom.h \div 2 + d[2]) : d \in PhotoTargets }

NextDrag ==
    \/ \E b \in PhotoBackgrounds : canvasState.backgroundElement = 0 /\ ChooseLibraryBackground(b)
    \/ \E asset \in Assets \cup HollowAssets :
          layers = << >> /\ Decoding = {} /\ AddImageLayer(asset, FALSE)
    \/ \E job \in pending : ImageDecoded(job)
    \/ \E point \in CentrePoints : PointerDown(point, 0)
    \/ \E point \in DragPoints : PointerMoveFar(point)
    \/ PointerUp("none")

SpecDrag == Init /\ [][NextDrag]_vars

-----------------------------------------------------------------------------
(* View: zoom and pan by wheel, middle button and key, and the view animation *)

\* pinches by two octaves at the far corner and off
\* the canvas; wheel pans along each axis, from end to end
WheelEvents ==
    { [ctrlKey |-> TRUE, deltaX |-> 0, deltaY |-> deltaY, x |-> p[1], y |-> p[2]] :
        deltaY \in {-200, 200},
        p \in {<< dom.w, dom.h >>, << -10, -10 >>} }
    \cup { [ctrlKey |-> FALSE, deltaX |-> d[1], deltaY |-> d[2], x |-> 0, y |-> 0] :
              d \in {<< 300, 0 >>, << 0, -300 >>} }

PanMovements == {<< 700, 0 >>, << 0, -400 >>}

\* the user acts while the view is at rest, or again before the next frame
BetweenFrames == ~isAnimatingView \/ stepLog.op \notin {"viewAnimation", "zoomSnap"}

NextView ==
    \/ \E b \in WideBackgrounds : BetweenFrames /\ ChooseLibraryBackground(b)
    \/ \E e \in WheelEvents : BetweenFrames /\ Wheel(e)
    \/ BetweenFrames /\ PointerDown(NoPoint, 1)
    \/ \E movement \in PanMovements : BetweenFrames /\ PointerPan(movement)
    \/ BetweenFrames /\ PointerUp("none")
    \/ BetweenFrames /\ KeyDown("z")
    \/ ViewAnimationFrame
    \/ ZoomSnapTimeout

SpecView == Init /\ [][NextView]_vars

-----------------------------------------------------------------------------
(* Batches: files uploaded several at a time, the autosave, and the restore of *)
(* the saved work after a reload                                               *)

\* a photograph, a cut-out, a file that does not decode and a text file
UploadFiles ==
    { [hash |-> 1, type |-> "image/webp", w |-> 100, h |-> 100, bytes |-> 1],
      [hash |-> 7, type |-> "image/webp", w |-> 64, h |-> 64, bytes |-> 1],
      [hash |-> 9, type |-> "image/webp", w |-> 0, h |-> 0, bytes |-> 1],
      [hash |-> 10, type |-> "text/plain", w |-> 0, h |-> 0, bytes |-> 1] }

Batches == UNION { [1..n -> UploadFiles] : n \in 1..MaxBatch }

HandleFileUpload(files, intendedUse) ==
    /\ upload = NoUpload
    /\ ~movieInteraction.active
    /\ Len(layers) + Len(files) <= MaxStack
    /\ nextId + Len(files) <= MaxStack + 1
    /\ Install(handleFileUpload(Enter("handleFileUpload"), files, intendedUse))

ProcessFile ==
    /\ upload.files # << >>
    /\ Install(ProcessNextFile(Enter("processFile")))

\* the debounced autosave fires
SaveCurrentWork ==
    /\ upload = NoUpload
    /\ Install(saveCurrentWork(Enter("saveCurrentWork")))

DeleteAsset(assetId) ==
    /\ upload = NoUpload
    /\ Install([Enter("deleteAsset") EXCEPT !.assetStore = deleteAssetFromLibrary(@, assetId)])

\* the page is loaded again and init restores the autosaved work
ReloadAndRestore ==
    /\ upload = NoUpload
    /\ autosave # << >>
    /\ Install(restoreCurrentWork(Reloaded(Enter("restoreCurrentWork"))))

AssetKeys(kind) == { assetStore[i].id : i \in { j \in 1..Len(assetStore) : assetStore[j].kind = kind } }

NextBatch ==
    \/ \E files \in Batches, intendedUse \in {"asset", "background"} :
          /\ intendedUse = "background" => canvasState.backgroundElement = 0
          /\ autosave = << >>
          /\ HandleFileUpload(files, intendedUse)
    \/ ProcessFile
    \/ layers = << >> /\ autosave = << >> /\ AddTextLayer
    \/ autosave = << >> /\ layers # << >> /\ SaveCurrentWork
    \/ \E assetId \in AssetKeys("asset") : autosave # << >> /\ DeleteAsset(assetId)
    \/ ReloadAndRestore

SpecBatch == FirstLaunch /\ [][NextBatch]_vars

-----------------------------------------------------------------------------
(* Sync: a peer changes the background or sends its project, and the saved *)
(* work is restored after a reload, with assets the library may not hold    *)

\* the project a peer sends on a join: its background and one text layer
PeerProject(hash) ==
    [ currentProjectId |-> 0, backgroundHash |-> hash, bgBrightness |-> 10,
      projectRotation |-> 0, backgroundFlipX |-> FALSE, layers |-> << SavedLayer(PeerLayer) >> ]

\* hashes a peer names: none, one of the library, one the library does not hold
PeerHashes == {0, 2, 9}

SyncData(projectState) ==
    /\ socket
    /\ Install(syncData(Enter("syncData"), projectState))

NextSync ==
    \/ canvasState.backgroundElement = 0 /\ SetBackground(DefaultBackground)
    \/ layers = << >> /\ AddTextLayer
    \/ JoinSession
    \/ \E hash \in PeerHashes :
          ReceiveAction(Action("BACKGROUND_CHANGED", [backgroundHash |-> hash]))
    \/ \E job \in pending : BackgroundFetched(job)
    \/ \E hash \in PeerHashes : SyncData(PeerProject(hash))
    \/ \E key \in {"r"} : ~socket /\ KeyDown(key)
    \/ autosave = << >> /\ SaveCurrentWork
    \/ \E assetId \in AssetKeys("background") : autosave # << >> /\ DeleteAsset(assetId)
    \/ ReloadAndRestore

SpecSync == Init /\ [][NextSync]_vars

-----------------------------------------------------------------------------
(* The worker renderer (layer-renderer.js) and content of no area *)

\* the job a layer is posted as: its content size and its effect properties
LayerData(l) ==
    [ id |-> l.id, type |-> l.type,
      contentWidth |-> IF l.type = "image" THEN l.mipW ELSE TextBlockWidth(l.text, l.fontSize),
      shadow |-> l.shadow.enabled, border |-> l.border.enabled, opacity |-> l.opacity ]

\* the padding renderLayer adds: blur * 2.5 + max(|offsetX|, |offsetY|), border.width * 2
WorkerPadding(layerData) ==
    (IF layerData.shadow THEN 35 ELSE 0)
    + (IF layerData.type = "image" /\ layerData.border THEN 8 ELSE 0)

\* renderLayer: throws on a cache of no area, else returns the bitmap
renderLayer(layerData) ==
    LET cacheWidth == layerData.contentWidth + WorkerPadding(layerData) * 2 IN
    IF cacheWidth <= 0 THEN [threw |-> TRUE, w |-> 0]
    ELSE [threw |-> FALSE, w |-> cacheWidth]

\* self.onmessage: the job is rendered; an error is caught and answered with
\* status 'error'
WorkerMessage(id) ==
    /\ ~movieInteraction.active
    /\ \E i \in 1..Len(layers) :
          /\ layers[i].id = id
          /\ Install([Enter("renderLayer") EXCEPT
                        !.stepLog.threw = renderLayer(LayerData(layers[i])).threw])

NextWorker ==
    \/ canvasState.backgroundElement = 0 /\ SetBackground(DefaultBackground)
    \/ AddTextLayer
    \/ \E asset \in Assets : Decoding = {} /\ AddImageLayer(asset, FALSE)
    \/ \E job \in pending : ImageDecoded(job)
    \/ \E v \in TextValues : ChangeProperty("PROPERTY", "text", v, "change")
    \/ \E v \in BOOLEAN : ChangeProperty("SHADOW", "enabled", v, "change")
    \/ \E id \in LayerIds : WorkerMessage(id)
    \/ \E id \in LayerIds : DeleteLayer(id)

SpecWorker == Init /\ [][NextWorker]_vars

-----------------------------------------------------------------------------
(* Start-up: init races its setup against the safety timeout *)

\* a photo that was saved as a background and later as an image too
TwiceSaved == Append(Library, AssetRecord(8, 1, "asset", 100, 100, 1))

\* init before its first await: the loading screen is up
Launching(joining, indexedDB) ==
    [ setup |-> "dedupe", joining |-> joining, indexedDB |-> indexedDB, minDisplay |-> FALSE,
      race |-> "pending", loadingScreen |-> TRUE, listeners |-> FALSE, toast |-> "" ]

\* a page load over what an earlier session left in the stores
Launch ==
    /\ InitCore
    /\ assetStore \in { << >>, Library, TwiceSaved }
    /\ \E hash \in PeerHashes :
          autosave \in { << >>, << PeerProject(hash) >> }
    /\ \E joining \in BOOLEAN, indexedDB \in BOOLEAN : startup = Launching(joining, indexedDB)

SetupDedupe ==
    /\ startup.setup = "dedupe"
    /\ Install(setupDedupe(Enter("init")))

SetupRestore ==
    /\ startup.setup = "restore"
    /\ Install(setupRestore(Enter("init")))

MinDisplayTime ==
    /\ ~startup.minDisplay
    /\ Install(minDisplayTime(Enter("init")))

\* the timer of 8000 ms fires after the timer of 1500 ms
SafetyTimeout ==
    /\ startup.minDisplay
    /\ startup.race = "pending"
    /\ Install(safetyTimeout(Enter("init")))

NextLaunch ==
    \/ SetupDedupe
    \/ SetupRestore
    \/ MinDisplayTime
    \/ SafetyTimeout
    \/ startup.listeners /\ canvasState.backgroundElement = 0 /\ SetBackground(DefaultBackground)
    \/ startup.listeners /\ AddTextLayer

SpecLaunch == Launch /\ [][NextLaunch]_vars

-----------------------------------------------------------------------------
(* The library over sessions: projects refer to assets, assets are deleted *)

SaveProject ==
    /\ upload = NoUpload
    /\ canvasState.currentProjectId # 0 \/ Cardinality(projectStore) < MaxProjects
    /\ ~movieInteraction.active
    /\ Install(saveProjectToLibrary(Enter("saveProjectToLibrary")))

\* the page is loaded again in a browser with IndexedDB and init runs to its end
Restart ==
    /\ upload = NoUpload
    /\ Install(setupRestore(setupDedupe(minDisplayTime(
           [Reloaded(Enter("init")) EXCEPT !.startup = Launching(FALSE, TRUE)]))))

\* a session over the library, or over one that holds a photo twice
Relaunch ==
    /\ InitApp
    /\ assetStore \in { Library, TwiceSaved }

\* the records of the assets a saved project refers to
ProjectAssetKeys ==
    { assetStore[i].id :
        i \in { j \in 1..Len(assetStore) :
                   \E r \in projectStore : assetStore[j].hash \in HashesOf(r.projectState) } }

NextLibrary ==
    \/ \E b \in Backgrounds : SetBackground(b)
    \/ \E asset \in Assets : layers = << >> /\ Decoding = {} /\ AddImageLayer(asset, FALSE)
    \/ \E job \in pending : ImageDecoded(job)
    \/ \E id \in LayerIds : DeleteLayer(id)
    \/ SaveProject
    \/ \E assetId \in ProjectAssetKeys : DeleteAsset(assetId)
    \/ pending = {} /\ projectStore # {} /\ Restart

SpecLibrary == Relaunch /\ [][NextLibrary]_vars

-----------------------------------------------------------------------------
(* The reference counts of the assets under the operations on saved projects *)

ProjectKeys == { r.id : r \in projectStore }

LoadProject(projectId) ==
    /\ upload = NoUpload
    /\ \A i \in 1..Len(assetStore) : assetStore[i].referenceCount <= MaxReferences
    /\ ~movieInteraction.active
    /\ Install(actuallyLoadProject(Enter("loadProject"), projectId))

DeleteProject(projectId) ==
    /\ upload = NoUpload
    /\ Install(deleteProjectFromLibrary(Enter("deleteProject"), projectId))

NextProjects ==
    \/ \E b \in Backgrounds : SetBackground(b)
    \/ ClearCanvas
    \/ \E asset \in Assets : layers = << >> /\ Decoding = {} /\ AddImageLayer(asset, FALSE)
    \/ \E job \in pending : ImageDecoded(job)
    \/ \E id \in LayerIds : DeleteLayer(id)
    \/ SaveProject
    \/ \E projectId \in ProjectKeys : pending = {} /\ LoadProject(projectId)
    \/ \E projectId \in ProjectKeys : DeleteProject(projectId)

SpecProjects == Init /\ [][NextProjects]_vars

-----------------------------------------------------------------------------
(* Files added to the library several at a time *)

AddFilesToLibraryOnly(files, intendedUse) ==
    /\ pending = {}
    /\ Len(assetStore) <= MaxRecords
    /\ Install(addFilesToLibraryOnly(Enter("addFilesToLibraryOnly"), files, intendedUse))

FoundByHash(job) ==
    /\ job.kind = "find"
    /\ Install(foundByHash(Enter("foundByHash"), job))

AssetPut(job) ==
    /\ job.kind = "put"
    /\ Install(assetPut(Enter("assetPut"), job))

NextAddFiles ==
    \/ \E files \in Batches, intendedUse \in {"asset", "background"} :
          AddFilesToLibraryOnly(files, intendedUse)
    \/ \E job \in pending : FoundByHash(job)
    \/ \E job \in pending : AssetPut(job)

SpecAddFiles == FirstLaunch /\ [][NextAddFiles]_vars

-----------------------------------------------------------------------------
(* Two peers answer a join: their sync_data messages are restored side by side *)

\* the projects of the two peers: a picture on one background, a text on another
SyncedProjects ==
    << [ currentProjectId |-> 0, backgroundHash |-> 1, bgBrightness |-> 10,
         projectRotation |-> 0, backgroundFlipX |-> FALSE,
         layers |-> << SavedLayer(ImageLayer(MaxIds + 2, CHOOSE asset \in Assets : TRUE,
                                             [w |-> 100, h |-> 100])) >> ],
       PeerProject(2) >>

Restores == { job \in pending : job.kind \in {"restoreBackground", "restoreLayers"} }

SyncDataBegun(k) ==
    /\ socket
    /\ \A job \in Restores : job.id # k
    /\ Install(restoreBegun(Enter("syncData"), k, SyncedProjects[k]))

BackgroundDecoded(job) ==
    /\ job.kind = "restoreBackground"
    /\ Install(backgroundDecoded(Enter("backgroundDecoded"), job))

LayersLoaded(job) ==
    /\ job.kind = "restoreLayers"
    /\ Install(layersLoaded([Enter("layersLoaded") EXCEPT !.pending = @ \ {job}],
                            job.layer.loadedLayers))

NextOverlap ==
    \/ \E b \in Backgrounds : ~socket /\ SetBackground(b)
    \/ ~socket /\ layers = << >> /\ AddTextLayer
    \/ \E key \in {"r"} : ~socket /\ KeyDown(key)
    \/ JoinSession
    \/ \E k \in DOMAIN SyncedProjects : SyncDataBegun(k)
    \/ \E job \in pending : BackgroundDecoded(job)
    \/ \E job \in pending : LayersLoaded(job)

SpecOverlap == Init /\ [][NextOverlap]_vars

-----------------------------------------------------------------------------
(* The eraser on an opaque picture and on one with a transparent middle *)

\* where the eraser goes down and moves to: the middle of the active layer
\* and a point near its left edge
ErasePoints ==
    LET idx == getActiveIndex(Cur) IN
    IF idx = 0 THEN {}
    ELSE { Point(layers[idx].x, layers[idx].y),
           Point(layers[idx].x - (3 * layers[idx].size) \div 8, layers[idx].y) }

NextErase ==
    \/ canvasState.backgroundElement = 0 /\ SetBackground(DefaultBackground)
    \/ \E asset \in Assets \cup HollowAssets :
          layers = << >> /\ Decoding = {} /\ AddImageLayer(asset, FALSE)
    \/ \E job \in pending : ImageDecoded(job)
    \/ SetEraserMode
    \/ \E point \in ErasePoints :
          /\ isEraserArmed
          /\ layers[getActiveIndex(Cur)].contentVersion < MaxVersion
          /\ PointerDown(point, 0)
    \/ \E point \in ErasePoints : movieInteraction.type = "erase" /\ PointerMove(point)
    \/ PointerUp("none")
    \/ \E v \in OpacityValues : ChangeProperty("PROPERTY", "opacity", v, "change")

SpecErase == Init /\ [][NextErase]_vars

-----------------------------------------------------------------------------
(* The reducer's by-id cases and the types it does not handle, as a peer sends
   them and as the keyboard dispatches them *)

\* an id no layer of this client has
UnknownId == MaxIds + 1

\* one action of every type that names a layer by id
TargetedActions(ids) ==
    { Action(type, [layerId |-> id, property |-> "opacity", value |-> 5]) :
        type \in {"LAYER_PROPERTY_PREVIEW_CHANGED", "LAYER_PROPERTY_CHANGED"}, id \in ids }
    \cup { Action(type, [layerId |-> id, property |-> "enabled", value |-> TRUE]) :
             type \in {"LAYER_SHADOW_PREVIEW_CHANGED", "LAYER_SHADOW_CHANGED",
                       "LAYER_BORDER_PREVIEW_CHANGED", "LAYER_BORDER_CHANGED"}, id \in ids }
    \cup { Action("LAYER_TRANSFORMED", [layerId |-> id, x |-> 60, y |-> 60]) : id \in ids }
    \cup { Action("INVALIDATE_LAYER_CACHE", [layerId |-> id]) : id \in ids }
    \cup { Action("LAYER_OPTIMIZATION_COMPLETE",
                  [layerId |-> id, newProxyW |-> 40,
                   newContentFrame |-> [x |-> 0, width |-> 40], wasOptimized |-> TRUE]) : id \in ids }

\* the action types of the undo keys, which no reducer has a case for
UnhandledActions == { Action(type, [none |-> 0]) : type \in {"UNDO", "REDO"} }

NextTargeted ==
    \/ JoinSession
    \/ \E b \in Backgrounds : canvasState.backgroundElement = 0 /\ SetBackground(b)
    \/ AddTextLayer
    \/ \E action \in TargetedActions(LayerIds \cup {UnknownId}) \cup UnhandledActions :
            ReceiveAction(action)
    \/ \E key \in {"ctrl+z", "ctrl+y"} : KeyDown(key)

SpecTargeted == Init /\ [][NextTargeted]_vars

-----------------------------------------------------------------------------

(* The entrance animation of new layers: the clock, the frames the browser
   calls back, and a gesture that begins while the loop runs *)

\* the clock moves on between two events
Tick ==
    /\ animatedRender.now + FrameTime <= MaxNow
    /\ Install([Enter("tick") EXCEPT !.animatedRender.now = @ + FrameTime])

\* the browser calls a frame the loop has requested
AnimationFrame ==
    /\ animatedRender.frames > 0
    /\ Install(animationRenderLoop(
           [Enter("animationRenderLoop") EXCEPT !.animatedRender.frames = @ - 1]))

\* a layer is added early enough for the clock to outlast its fade
NextFade ==
    \/ canvasState.backgroundElement = 0 /\ SetBackground(DefaultBackground)
    \/ animatedRender.now + FADE_IN_DURATION <= MaxNow /\ AddTextLayer
    \/ \E id \in LayerIds : DeleteLayer(id)
    \/ \E i \in 1..Len(layers) : PointerDown(Point(layers[i].x, layers[i].y), 0)
    \/ PointerUp("none")
    \/ Tick
    \/ AnimationFrame

\* the clock does not stop and the browser calls every frame it was asked for
SpecFade ==
    Init /\ [][NextFade]_vars /\ WF_vars(Tick) /\ WF_vars(AnimationFrame)

-----------------------------------------------------------------------------

(* The timers of the toast and of the snap of the zoom to 1 *)

\* a handler shows a toast, for a time or until it is hidden
Toast(message, timed) == Install(toast(Enter("toast"), message, timed))

HideToast ==
    /\ timeouts.toastEl.visibility = "visible"
    /\ Install(hideToast(Enter("hideToast")))

ToastTimeout ==
    \E t \in timeouts.pending :
        /\ t.callback = "hideToast"
        /\ Install(toastTimeoutFired(Enter("toastTimeout"), t))

\* the wheel with the control key down, towards scale 1 and away from it
NextTimeouts ==
    \/ \E b \in WideBackgrounds : canvasState.backgroundElement = 0 /\ ChooseLibraryBackground(b)
    \/ \E e \in { w \in WheelEvents : w.ctrlKey } : Wheel(e)
    \/ ZoomSnapTimeout
    \/ \E message \in {"Layer duplicated", "Removing background"}, timed \in BOOLEAN :
          Toast(message, timed)
    \/ HideToast
    \/ ToastTimeout

SpecTimeouts == Init /\ [][NextTimeouts]_vars

-----------------------------------------------------------------------------

(* The mipmap chain: generateMipmaps on pictures below, at and above 32 pixels
   and the largest proxy *)

\* createLayerFromSrc: const MAX_PROXY_DIMENSION = 2048
MAX_PROXY_DIMENSION == 2048

SourceSizes == {10, 32, 33, 40, 65, 100, 101, 1000, MaxSourceSize}

\* the largest dimension generateMipmaps is called with
MaxDimensions == {MAX_PROXY_DIMENSION}

GenerateMipmaps(sourceWidth, sourceHeight, maxDimension) ==
    /\ mipmapRun.at \in {"idle", "returned"}
    /\ Install(generateMipmapsBegun(Enter("generateMipmaps"), sourceWidth, sourceHeight, maxDimension))

GenerateMipmapsLoop ==
    /\ mipmapRun.at = "while"
    /\ Install(generateMipmapsLoop(Enter("generateMipmapsLoop")))

NextMipmaps ==
    \/ \E sourceWidth, sourceHeight \in SourceSizes, maxDimension \in MaxDimensions :
          GenerateMipmaps(sourceWidth, sourceHeight, maxDimension)
    \/ GenerateMipmapsLoop

\* the call runs on once it has begun
SpecMipmaps == Init /\ [][NextMipmaps]_vars /\ WF_vars(GenerateMipmapsLoop)

-----------------------------------------------------------------------------

(* The content frame of an image layer under the jobs that rewrite it *)

\* the width of what a mask leaves of a mipmap: all of it, or its middle half
MaskWidths(mipW) == { mipW, mipW \div 2 }

SegmentationMasked(job, maskW) ==
    /\ job.kind = "segment"
    /\ job.layer.mipW > 0
    /\ \A i \in 1..Len(layers) : layers[i].id = job.id => layers[i].pix < MaxPix
    /\ Install(segmentationMasked(Enter("segmentationDone"), job, maskW))

NextFrame ==
    \/ canvasState.backgroundElement = 0 /\ SetBackground(DefaultBackground)
    \/ \E asset \in Assets, needsOptimization \in BOOLEAN :
          layers = << >> /\ Decoding = {} /\ AddImageLayer(asset, needsOptimization)
    \/ \E job \in pending : ImageDecoded(job)
    \/ \E job \in pending : TranscodeDone(job)
    \/ RemoveBackground
    \/ \E job \in { j \in pending : j.kind = "segment" } :
          \E maskW \in MaskWidths(job.layer.mipW) : SegmentationMasked(job, maskW)
    \/ SetEraserMode
    \/ isEraserArmed /\ \E point \in CentrePoints : PointerDown(point, 0)
    \/ PointerUp("none")
    \/ autosave = << >> /\ layers # << >> /\ SaveCurrentWork
    \/ pending = {} /\ ReloadAndRestore
    \/ \E id \in LayerIds : DeleteLayer(id)

SpecFrame == Init /\ [][NextFrame]_vars

-----------------------------------------------------------------------------
(* Duplicates: a layer is copied and the copies are erased apart *)

NextDuplicate ==
    \/ canvasState.backgroundElement = 0 /\ SetBackground(DefaultBackground)
    \/ AddTextLayer
    \/ \E asset \in Assets : Decoding = {} /\ AddImageLayer(asset, FALSE)
    \/ \E job \in pending : ImageDecoded(job)
    \/ \E id \in LayerIds : DuplicateLayer(id)
    \/ \E id \in LayerIds : SelectFromPalette(id)
    \/ SetEraserMode
    \/ isEraserArmed /\ \E point \in CentrePoints : PointerDown(point, 0)
    \/ PointerUp("none")
    \/ \E id \in LayerIds : DeleteLayer(id)

SpecDuplicate == Init /\ [][NextDuplicate]_vars

-----------------------------------------------------------------------------
(* Save and restore: the autosaved work is brought back after a reload *)

\* values of the background brightness slider (tenths)
BrightnessValues == {5, 10}

ChangeBackgroundFilter(property, value) ==
    /\ canvasState.backgroundElement # 0
    /\ canvasState[property] # value
    /\ ~movieInteraction.active
    /\ Install(changeBackgroundFilter(Enter("changeBackgroundFilter"), property, value))

\* the records of the assets the canvas shows
CanvasAssetKeys ==
    { assetStore[i].id :
        i \in { j \in 1..Len(assetStore) :
                   \/ assetStore[j].hash = canvasState.backgroundHash
                   \/ \E k \in 1..Len(layers) : layers[k].originalHash = assetStore[j].hash } }

NextRestore ==
    \/ autosave = << >> /\ canvasState.backgroundElement = 0 /\ SetBackground(DefaultBackground)
    \/ autosave = << >> /\ layers = << >> /\ AddTextLayer
    \/ \E asset \in Assets :
          autosave = << >> /\ Len(layers) <= 1 /\ Decoding = {} /\ AddImageLayer(asset, FALSE)
    \/ \E job \in pending : ImageDecoded(job)
    \/ \E key \in {"r", "t"} : autosave = << >> /\ KeyDown(key)
    \/ \E id \in LayerIds : autosave = << >> /\ ToggleLock(id)
    \/ \E v \in BrightnessValues : autosave = << >> /\ ChangeBackgroundFilter("bgBrightness", v)
    \/ autosave = << >> /\ pending = {} /\ SaveCurrentWork
    \/ \E assetId \in CanvasAssetKeys : autosave # << >> /\ DeleteAsset(assetId)
    \/ pending = {} /\ ReloadAndRestore

SpecRestore == Init /\ [][NextRestore]_vars

-----------------------------------------------------------------------------
(* A gesture in progress while an image that was being decoded arrives *)

NextMidGesture ==
    \/ canvasState.backgroundElement = 0 /\ SetBackground(DefaultBackground)
    \/ layers = << >> /\ AddTextLayer
    \/ \E asset \in Assets : Len(layers) = 1 /\ Decoding = {} /\ AddImageLayer(asset, FALSE)
    \/ \E job \in pending : ImageDecoded(job)
    \/ \E point \in PressPoints : PointerDown(point, 0)
    \/ \E point \in MovePoints : PointerMove(point)
    \/ PointerUp("none")

SpecMidGesture == Init /\ [][NextMidGesture]_vars

-----------------------------------------------------------------------------
(* Order: a peer adds an image layer and goes on to work on it *)

\* the image layer a peer adds, as broadcastAction sends it
PeerImage ==
    LET asset == CHOOSE asset \in Assets : TRUE
        layer == ImageLayer(MaxIds + 2, asset, [w |-> 100, h |-> 100])
    IN [k \in DOMAIN layer \cup {"assetDataUrl"} |->
           IF k = "assetDataUrl" THEN asset.hash ELSE layer[k]]

\* the peer has sent the LAYER_ADDED of its image layer
PeerImageSent ==
    \/ PeerImage.id \in LayerIds
    \/ \E job \in pending : job.kind = "hydrate" /\ job.id = PeerImage.id

\* what the peer dispatches on its image layer once it has added it
FollowUps ==
    { Action("LAYER_PROPERTY_CHANGED", [layerId |-> PeerImage.id, property |-> "opacity", value |-> v]) :
        v \in OpacityValues }
    \cup { Action("LAYER_TRANSFORMED", [layerId |-> PeerImage.id, x |-> 60, y |-> 60]),
           Action("LAYER_DELETED", [layerId |-> PeerImage.id]) }

Hydrated(job) ==
    /\ job.kind = "hydrate"
    /\ Install(hydrated(Enter("hydrated"), job))

NextOrder ==
    \/ canvasState.backgroundElement = 0 /\ SetBackground(DefaultBackground)
    \/ layers = << >> /\ AddTextLayer
    \/ JoinSession
    \/ ~PeerImageSent /\ ReceiveAction(Action("LAYER_ADDED", [newLayer |-> PeerImage]))
    \/ \E job \in pending : Hydrated(job)
    \/ \E action \in FollowUps : PeerImageSent /\ ReceiveAction(action)
    \/ \E id \in LayerIds : id # PeerImage.id /\ ToggleLock(id)
    \/ \E id \in LayerIds : SelectFromPalette(id)
    \/ \E v \in BOOLEAN : ChangeProperty("SHADOW", "enabled", v, "change")

SpecOrder == Init /\ [][NextOrder]_vars

-----------------------------------------------------------------------------
(* Properties of the compositor *)

Blits == { screen[i] : i \in 1..Len(screen) }
         \cup { staticCaches.bg[i] : i \in 1..Len(staticCaches.bg) }
         \cup { staticCaches.fg[i] : i \in 1..Len(staticCaches.fg) }

\* C1: no pass of drawLayers blits a cache bitmap whose isValid is false; a layer
\* whose cache is stale is rebuilt first, so once a handler has redrawn the
\* canvas every layer on it holds a valid cache
C1_RebuildBeforeBlit ==
    /\ \A blit \in Blits : blit.isValid /\ blit.canvas.exists
    /\ (canvasState.backgroundElement # 0 /\ ~movieInteraction.active) =>
           \A i \in 1..Len(layers) : layers[i].cache.isValid

\* C1: a slider step invalidated the active layer's cache and the redraw that
\* followed rebuilt it, with the new opacity, before blitting it
C1_Witness ==
    /\ stepLog.op = "changeProperty"
    /\ \E i \in 1..Len(screen) :
           /\ screen[i].id = activeLayerId
           /\ screen[i].isValid
           /\ screen[i].canvas.opacity = 5
    /\ Len(screen) = 2

\* the bitmap in l.cache is the one updateLayerCache would paint now
CacheCurrent(l) ==
    LET contentWidth == IF l.type = "image" THEN l.mipW ELSE TextBlockWidth(l.text, l.fontSize) IN
    IF contentWidth <= 0 THEN l.cache.canvas.w = 0
    ELSE l.cache.canvas = Render(l, contentWidth)

\* C2: whenever a layer's cache.isValid is true, the cached bitmap is the one
\* built from the layer's present opacity, shadow, border, text, font size and
\* raster content; whatever changed one of them left the flag false until the
\* rebuild
C2_ValidCacheIsCurrent ==
    \A i \in 1..Len(layers) : layers[i].cache.isValid => CacheCurrent(layers[i])

\* C2: the segmentation result replaced the raster content and the cache was
\* rebuilt from it
C2_Witness ==
    /\ stepLog.op = "segmentationDone"
    /\ \E i \in 1..Len(layers) :
           /\ layers[i].pix > 0
           /\ layers[i].cache.isValid
           /\ layers[i].cache.canvas.pix = layers[i].pix

JobOps == {"imageDecoded", "transcodeDone", "segmentationDone"}

\* the job whose completion this step handles
CompletedJob == CHOOSE job \in pending : job \notin pending'

\* the project was cleared since the load began, or the target layer is gone
Stale(job) ==
    IF job.kind = "decode" THEN canvasState.backgroundElement = 0
    ELSE job.id \notin LayerIds

\* the layers without their cache bitmaps, which any redraw may rebuild
WithoutCaches(ls) ==
    [i \in 1..Len(ls) |-> [ls[i] EXCEPT !.cache = [canvas |-> NoCanvas, isValid |-> FALSE]]]

\* C9: the late result of a load, transcode or segmentation job whose project
\* was cleared, or whose target layer was deleted, neither adds a layer nor
\* modifies one
C9_StaleResultsDropped ==
    [][(stepLog'.op \in JobOps /\ Stale(CompletedJob)) =>
          WithoutCaches(layers') = WithoutCaches(layers)]_vars

\* C3: the pointer-up that ends a gesture of any type leaves the interaction
\* idle: movieInteraction.active false, scrubbingMode 'none' and the render
\* loop stopped, whether or not its finalisation threw
C3_PointerUpLeavesIdle ==
    [][stepLog'.op = "pointerUp" =>
          /\ ~movieInteraction'.active
          /\ scrubbingMode' = "none"
          /\ animationFrameId' = 0]_vars

\* C3: a drag moved the layer, the finalisation of its pointer-up threw, and the
\* interaction is idle all the same
C3_Witness ==
    /\ stepLog.op = "pointerUp"
    /\ stepLog.threw
    /\ Len(layers) = 1
    /\ layers[1].x # dom.w \div 2
    /\ ~movieInteraction.active
    /\ scrubbingMode = "none"
    /\ animationFrameId = 0

\* C4: after the pointer-up that ends a drag, corner-resize or rotate of a layer,
\* the layer's propX, propY and propSize are its x, y and size (fontSize for
\* text) over the canvas width, height and sqrt(width * height)
C4_ProportionsAfterGesture ==
    [][(stepLog'.op = "pointerUp" /\ ~stepLog'.threw
        /\ movieInteraction.type \in {"drag", "resize", "rotate"}) =>
          \A i \in 1..Len(layers') :
              layers'[i].id = movieInteraction.layerId => ProportionsCurrent(layers'[i], dom')]_vars

\* the geometry and the raster content of a layer
Geometry(l) == << l.x, l.y, l.size, l.fontSize, l.pix >>

\* C5: while a layer is locked no input changes its x, y, size, fontSize or
\* raster pixels, and a pointer-down while every layer is locked starts no
\* gesture
C5_LockedLayerUntouched ==
    [][/\ \A i \in 1..Len(layers), j \in 1..Len(layers') :
              (layers[i].isLocked /\ layers'[j].id = layers[i].id) =>
                  Geometry(layers'[j]) = Geometry(layers[i])
       /\ (stepLog'.op = "pointerDown" /\ Len(layers) > 0
           /\ \A i \in 1..Len(layers) : layers[i].isLocked) =>
              ~movieInteraction'.active]_vars

\* a layer that has something to draw
Drawable(l) ==
    IF l.type = "image" THEN l.mipW > 0 ELSE TextBlockWidth(l.text, l.fontSize) > 0

IdsOf(seq) == [i \in 1..Len(seq) |-> seq[i].id]

\* the ids of the layers with something to draw, bottom first
BottomFirst(ls) == IdsOf(SelectSeq(Reverse(ls), Drawable))

\* C6: the 2D compositor and the WebGL backend both draw every layer once,
\* bottom first, so that index 0 ends topmost, and LAYER_ADDED puts the new
\* layer at index 0
C6_ZOrder ==
    /\ (canvasState.backgroundElement # 0 /\ ~movieInteraction.active) =>
           IdsOf(screen) = BottomFirst(layers)
    /\ stepLog.op = "renderScene" => glScene = BottomFirst(layers)
    /\ (stepLog.dispatched # << >>
        /\ stepLog.dispatched[Len(stepLog.dispatched)].action.type = "LAYER_ADDED") =>
           layers[1].id = stepLog.dispatched[Len(stepLog.dispatched)].action.payload.newLayer.id

\* what a full drawLayers over the present layer list would put on the canvas
FullDraw == drawLayers(layers, Indices(1, Len(layers))).blits

\* C7: every frame the scrub fast path draws during a transform gesture, and
\* the frame drawn when the gesture ends, is the frame a full drawLayers over
\* the present layer list would draw
C7_ScrubFrameIsFullDraw ==
    /\ (scrubbingMode = "transform" /\ stepLog.op = "renderLoop") => screen = FullDraw
    /\ stepLog.op = "pointerUp" => screen = FullDraw

\* a layer without its cache and its raster pixels
Structure(l) == [l EXCEPT !.cache = [canvas |-> NoCanvas, isValid |-> FALSE], !.pix = 0]

StructureOf(ls) == [i \in 1..Len(ls) |-> Structure(ls[i])]

\* the reducer applied to the logged actions k.. in turn
RECURSIVE Replay(_, _, _)
Replay(st, log, k) ==
    IF k > Len(log) THEN st ELSE Replay(rootReducer(st, log[k].action), log, k + 1)

\* C8: the layer list and the non-pixel, non-cache fields of its layers change
\* only as the reducer changes them for the actions the step dispatched
C8_OnlyReducerChangesLayers ==
    [][StructureOf(layers') =
          StructureOf(Replay(ReducerState(Cur), stepLog'.dispatched, 1).layers)]_vars

\* C10: a peer's action goes through the reducer in one remote dispatch, and
\* neither it nor the background fetch it may trigger broadcasts anything
C10_PeerActionsNotRebroadcast ==
    [][/\ stepLog'.op \in {"handleServerMessage", "backgroundFetched"} =>
              \A i \in 1..Len(stepLog'.dispatched) : ~stepLog'.dispatched[i].broadcast
       /\ stepLog'.op = "handleServerMessage" =>
              /\ Len(stepLog'.dispatched) = 1
              /\ stepLog'.dispatched[1].isRemote
              /\ stepLog'.dispatched[1].action.type # "BACKGROUND_CHANGED" =>
                     /\ StructureOf(layers') =
                            StructureOf(layersReducer(layers, stepLog'.dispatched[1].action))
                     /\ activeLayerId' =
                            rootReducer(ReducerState(Cur), stepLog'.dispatched[1].action).activeLayerId]_vars

\* C10: with the socket open, the background a peer's action announced has been
\* fetched and set, and the layers re-laid-out on it
C10_Witness ==
    /\ socket
    /\ stepLog.op = "backgroundFetched"
    /\ canvasState.backgroundElement = 2
    /\ layers # << >>

\* the ids of a layer list other than layerId, in order
Others(ls, layerId) == SelectSeq(IdsOf(ls), LAMBDA id : id # layerId)

\* the places at which layerId stands in a layer list
PlacesOf(ls, layerId) == { i \in 1..Len(ls) : ls[i].id = layerId }

\* C11: LAYER_REORDERED(layerId, delta) moves the layer from index i to
\* i + delta and keeps the order of the others; [A,B,C] with B and -1 becomes
\* [B,A,C]; an unknown id or a target out of range leaves the list as it is;
\* the set of layers never changes
C11_ReorderMovesOneLayer ==
    [][(Len(stepLog'.dispatched) = 1
        /\ stepLog'.dispatched[1].action.type = "LAYER_REORDERED") =>
          LET p == stepLog'.dispatched[1].action.payload
              from == PlacesOf(layers, p.layerId)
              inRange == \E i \in from : i + p.delta \in 1..Len(layers)
          IN /\ { WithoutCaches(layers')[k] : k \in 1..Len(layers') } =
                    { WithoutCaches(layers)[k] : k \in 1..Len(layers) }
             /\ Len(layers') = Len(layers)
             /\ Others(layers', p.layerId) = Others(layers, p.layerId)
             /\ IF inRange
                THEN PlacesOf(layers', p.layerId) = { i + p.delta : i \in from }
                ELSE IdsOf(layers') = IdsOf(layers)
             /\ (IdsOf(layers) = << 3, 2, 1 >> /\ p.layerId = 2 /\ p.delta = -1) =>
                    IdsOf(layers') = << 2, 3, 1 >>]_vars

\* C11: the stack [A,B,C] = [3,2,1] has just become [B,A,C] by a reorder of B
\* with delta -1
C11_Witness ==
    /\ IdsOf(layers) = << 2, 3, 1 >>
    /\ Len(stepLog.dispatched) = 1
    /\ stepLog.dispatched[1].action = Action("LAYER_REORDERED", [layerId |-> 2, delta |-> -1])

\* the layer a click at point selects: the topmost of the layers whose box
\* holds the point and whose pixel there is opaque, the topmost whose box holds
\* the point when none is opaque, 0 when no box holds it
Selected(ls, point) ==
    LET boxes == { i \in 1..Len(ls) : isPointInMovieLayer(point, ls[i]) }
        opaque == { i \in boxes : isPixelOpaqueAtPoint(ls[i], point) }
        top(S) == CHOOSE i \in S : \A j \in S : i <= j
    IN IF opaque # {} THEN ls[top(opaque)].id
       ELSE IF boxes # {} THEN ls[top(boxes)].id
       ELSE 0

\* C12: a pointer-down that hits no handle, and the release of a click that
\* never became a drag, select the first layer from the top whose box holds the
\* point and whose pixel there is opaque, else the topmost whose box holds the
\* point, else nothing
C12_HitTestSelection ==
    [][/\ \A point \in HitPoints :
              (/\ stepLog'.op = "pointerDown"
               /\ ~isEraserArmed
               /\ getActiveIndex(Cur) # 0 =>
                      getMovieHandleAtPoint(point, layers[getActiveIndex(Cur)]) = ""
               /\ Install(handleMovieInteractionStart(Enter("pointerDown"), point, 0))) =>
                  activeLayerId' = Selected(layers, point)
       /\ (/\ stepLog'.op = "pointerUp"
           /\ ~movieInteraction.didDrag
           /\ movieInteraction.startClickPoint.defined) =>
              activeLayerId' = Selected(layers, movieInteraction.startClickPoint)]_vars

\* C12: the click landed in the transparent middle of the top layer, over an
\* opaque pixel of the layer below, and selected the layer below
C12_Witness ==
    /\ stepLog.op = "pointerDown"
    /\ Len(layers) = 2
    /\ movieInteraction.type = "drag"
    /\ isPointInMovieLayer(movieInteraction.startClickPoint, layers[1])
    /\ ~isPixelOpaqueAtPoint(layers[1], movieInteraction.startClickPoint)
    /\ isPointInMovieLayer(movieInteraction.startClickPoint, layers[2])
    /\ isPixelOpaqueAtPoint(layers[2], movieInteraction.startClickPoint)
    /\ activeLayerId = layers[2].id

\* the canvas has the size of the background, its sides exchanged exactly
\* under a rotation of 90 or 270
CanvasFollowsRotation(cs, d) ==
    LET b == BackgroundOf(cs.backgroundElement) IN
    IF cs.projectRotation \in {90, 270}
    THEN d.w = b.h /\ d.h = b.w
    ELSE d.w = b.w /\ d.h = b.h

\* C13: each rotate-project takes projectRotation a quarter turn on, 0 -> 90
\* -> 180 -> 270 -> 0, and whenever a background is set the canvas has the
\* background's width and height, exchanged exactly at 90 and 270
C13_RotationCycleAndCanvas ==
    [][/\ (stepLog'.op = "keyDown" /\ stepLog'.dispatched # << >>
           /\ stepLog'.dispatched[1].action.type = "PROJECT_ROTATED") =>
              canvasState'.projectRotation = (canvasState.projectRotation + 90) % 360
       /\ canvasState'.backgroundElement # 0 => CanvasFollowsRotation(canvasState', dom')]_vars

\* the size and the place the proportions of a layer give it on a canvas
AtProportions(l, d) ==
    [ size |-> (l.propSize.n * Sqrt(d.w * d.h)) \div l.propSize.d,
      x |-> (l.propX.n * d.w) \div l.propX.d,
      y |-> (l.propY.n * d.h) \div l.propY.d ]

SizeOf(l) == IF l.type = "image" THEN l.size ELSE l.fontSize

\* a step that re-lays-out the layers: the background is set, or the project
\* rotated, with a background and layers already there
RelayoutStep ==
    /\ stepLog'.op = "setBackground"
          \/ (stepLog'.op = "keyDown" /\ stepLog'.dispatched # << >>
              /\ stepLog'.dispatched[1].action.type = "PROJECT_ROTATED")
    /\ canvasState.backgroundElement # 0
    /\ Len(layers') = Len(layers)

\* C14 as stated: on a change of background every layer is put at
\* (propX * W', propY * H') with size propSize * sqrt(W' * H')
C14_RelayoutAtProportions ==
    [][RelayoutStep =>
          \A i \in 1..Len(layers) :
              LET to == AtProportions(layers[i], dom') IN
              /\ SizeOf(layers'[i]) = to.size
              /\ layers'[i].x = to.x
              /\ layers'[i].y = to.y]_vars

\* a centre moved by what brings a box of the given extent within 0..limit:
\* flush with 0 when it would start before 0, else flush with the limit when it
\* would end beyond it
PushedInside(c, extent, limit) ==
    IF 2 * c - extent < 0 THEN c + (extent - 2 * c) \div 2
    ELSE IF 2 * c + extent > 2 * limit THEN c + (2 * limit - 2 * c - extent) \div 2
    ELSE c

\* C14 amended: on a change of background every layer takes the size
\* propSize * sqrt(W' * H') and is put at (propX * W', propY * H'), then moved
\* by what brings its bounding box inside the new canvas
C14_RelayoutThenPushedInside ==
    [][RelayoutStep =>
          \A i \in 1..Len(layers) :
              LET to == AtProportions(layers[i], dom')
                  m == getLayerMetrics(layers'[i])
              IN /\ SizeOf(layers'[i]) = to.size
                 /\ layers'[i].rot = 0 =>
                        /\ layers'[i].x = PushedInside(to.x, m.dWidth, dom'.w)
                        /\ layers'[i].y = PushedInside(to.y, m.dHeight, dom'.h)]_vars

\* C14: the canvas has doubled from 160x90 to 320x180 under a layer at the
\* centre, which now stands at the new centre with twice its size
C14_Witness ==
    /\ stepLog.op = "setBackground"
    /\ dom = [w |-> 320, h |-> 180]
    /\ Len(layers) = 1
    /\ layers[1].propX = Rat(1, 2) /\ layers[1].propY = Rat(1, 2)
    /\ layers[1].propSize = Rat(1, 6)
    /\ layers[1].x = 160 /\ layers[1].y = 90
    /\ SizeOf(layers[1]) = 40

\* C15: throughout a corner-resize the corner opposite the grabbed handle
\* stays where it was when the gesture began, to within a pixel of rounding,
\* for image and text layers
C15_ResizeAnchorFixed ==
    (movieInteraction.active /\ movieInteraction.type = "resize") =>
        \A i \in 1..Len(layers) :
            layers[i].id = movieInteraction.layerId =>
                LET corner == getHandleWorldPosition(layers[i], OppositeHandle(movieInteraction.handle))
                IN /\ Abs(corner.x - movieInteraction.anchorPoint.x) <= 1
                   /\ Abs(corner.y - movieInteraction.anchorPoint.y) <= 1


\* the pan satisfies the constraint for the scale, to within tolerance
PanConstrained(view, tolerance) ==
    IF view.scale >= Unit
    THEN /\ view.pan.x >= -(dom.w * (view.scale - Unit)) - tolerance
         /\ view.pan.x <= tolerance
         /\ view.pan.y >= -(dom.h * (view.scale - Unit)) - tolerance
         /\ view.pan.y <= tolerance
    ELSE /\ Abs(2 * view.pan.x - dom.w * (Unit - view.scale)) <= 2 * tolerance
         /\ Abs(2 * view.pan.y - dom.h * (Unit - view.scale)) <= 2 * tolerance

\* C16 as stated: after any zoom, wheel pan, middle-button pan and reset of
\* the view, the pan on display satisfies the constraint for the scale on
\* display (to within half a pixel): within [-(dimension *
\* scale - dimension), 0] on each axis for a scale of 1 or more, and the
\* centring offset (dimension - dimension * scale) / 2 for a scale below 1.
C16_PanConstrained == PanConstrained(viewState, Unit \div 2)

\* C16 amended: the pan the view is heading for always satisfies the
\* constraint for the scale it is heading for, exactly, and the view on
\* display is that target whenever no view animation is running.
C16_TargetPanConstrained ==
    /\ PanConstrained(targetViewState, 0)
    /\ ~isAnimatingView => viewState = targetViewState

\* a wheel pan at scale 2 or more was stopped at the far end of the range
C16_Witness ==
    /\ stepLog.op = "wheel"
    /\ dom.w > 0
    /\ targetViewState.scale >= 2 * Unit
    /\ targetViewState.pan.x = -(dom.w * (targetViewState.scale - Unit))
    /\ targetViewState.pan.y = 0
    /\ viewState # targetViewState


\* the pointer is at point, 50 to the right of where it went down on a layer
\* that was in the middle of the 800 by 600 canvas
DraggedBy50(point) ==
    /\ dom = [w |-> 800, h |-> 600]
    /\ movieInteraction.active /\ movieInteraction.type = "drag"
    /\ movieInteraction.initialState.x = 400
    /\ point.x - movieInteraction.startClickPoint.x = 50
    /\ point.y - movieInteraction.startClickPoint.y = 0

Dangling(a) == a.activeLayerId # 0 /\ FindIndex(a.layers, a.activeLayerId) = 0

AsIfNone(a) == [a EXCEPT !.activeLayerId = 0]

\* the state with a selection that names no layer read as no selection
Observable(r) ==
    [r EXCEPT !.activeLayerId = IF FindIndex(r.layers, r.activeLayerId) = 0 THEN 0 ELSE @]

\* the handler, run from a to r and from AsIfNone(a) to r0, did the same in
\* both runs, raised no error and modified no layer
Unselected(a, r, r0) ==
    /\ Observable(r) = Observable(r0)
    /\ ~r.stepLog.threw
    /\ WithoutCaches(r.layers) = WithoutCaches(a.layers)

HandlersUnselected(a) ==
    /\ \A point \in CentrePoints \cup {Point(0, 0)} :
        /\ Unselected(a, handleMovieInteractionStart(a, point, 0),
                         handleMovieInteractionStart(AsIfNone(a), point, 0))
        /\ Unselected(a, handleMovieInteractionMove(a, point, NoMovement),
                         handleMovieInteractionMove(AsIfNone(a), point, NoMovement))
        /\ Unselected(a, applyBrushToLayer(a, getActiveIndex(a), point),
                         applyBrushToLayer(AsIfNone(a), getActiveIndex(AsIfNone(a)), point))
    /\ Unselected(a, handleMovieInteractionEnd(a, "none"), handleMovieInteractionEnd(AsIfNone(a), "none"))
    /\ \A key \in LayerKeys \cup {"escape"} :
        Unselected(a, handleKeyDown(a, key), handleKeyDown(AsIfNone(a), key))
    /\ Unselected(a, setEraserMode(a), setEraserMode(AsIfNone(a)))
    /\ Unselected(a, updateTransformCaches(a), updateTransformCaches(AsIfNone(a)))
    /\ Unselected(a, removeBgForActiveImageLayer(a), removeBgForActiveImageLayer(AsIfNone(a)))

\* C18: at most one layer is the active one; a step that deletes the active
\* layer leaves activeLayerId null; and while activeLayerId names no layer of
\* the list, the pointer, keyboard and eraser handlers and the build of the
\* scrub caches do what they do with no selection: no layer is modified and
\* no error is raised.
C18_ActiveLayerIsWeakReference ==
    [][ /\ Cardinality({ i \in 1..Len(layers) : layers[i].id = activeLayerId }) <= 1
        /\ \A k \in 1..Len(stepLog'.dispatched) :
            (/\ stepLog'.dispatched[k].action.type = "LAYER_DELETED"
             /\ stepLog'.dispatched[k].action.payload.layerId = activeLayerId) =>
                activeLayerId' = 0
        /\ Dangling(Cur) => HandlersUnselected(Enter("handler"))
      ]_vars

\* a handler ran while activeLayerId named a layer that a peer had deleted
\* or never sent, with a layer on the canvas and a gesture under way
C18_Witness ==
    /\ Dangling(Cur)
    /\ layers # << >>
    /\ movieInteraction.active
    /\ stepLog.op = "pointerMove"


\* the pointer, at point, is within the drag threshold of where it went down
\* on an unlocked layer, and has been since
BelowThreshold(point) ==
    LET mi == movieInteraction
        dx == point.x - mi.startClickPoint.x
        dy == point.y - mi.startClickPoint.y
    IN /\ mi.active /\ mi.type = "drag" /\ ~mi.didDrag
       /\ mi.startClickPoint.defined
       /\ dx * dx + dy * dy <= DRAG_THRESHOLD * DRAG_THRESHOLD

\* C19: while the moves after a pointer-down on an unlocked layer stay within
\* the drag threshold of the press point, didDrag stays false, scrub mode is
\* not entered and the layer keeps the x and y it had before the press; the
\* release then leaves them as they were.
C19_SubThresholdIsClick ==
    [][ /\ \A point \in MovePoints :
            (BelowThreshold(point)
             /\ Install(handleMovieInteractionMove(Enter("pointerMove"), point, NoMovement))) =>
                /\ ~movieInteraction'.didDrag
                /\ scrubbingMode' = "none"
                /\ \A i \in 1..Len(layers) :
                    layers[i].id = movieInteraction.layerId =>
                        /\ layers'[i].x = movieInteraction.initialState.x
                        /\ layers'[i].y = movieInteraction.initialState.y
        /\ (stepLog'.op = "pointerUp" /\ ~stepLog'.threw
            /\ movieInteraction.active /\ movieInteraction.type = "drag" /\ ~movieInteraction.didDrag) =>
                \A i \in 1..Len(layers) :
                    layers[i].id = movieInteraction.layerId =>
                        /\ layers'[i].x = layers[i].x
                        /\ layers'[i].y = layers[i].y
      ]_vars


\* C20: when the model or the inference of a background removal fails, every
\* layer is left exactly as it was, cache included, a toast reports the
\* failure, and nothing else of the state changes but the removal being over.
C20_FailedRemovalLeavesLayers ==
    [][ stepLog'.op = "segmentationFailed" =>
            /\ layers' = layers
            /\ activeLayerId' = activeLayerId
            /\ stepLog'.toast # "" /\ ~stepLog'.threw /\ stepLog'.dispatched = << >>
            /\ \E job \in pending : job.kind = "segment" /\ pending' = pending \ {job}
            /\ UNCHANGED << canvasState, dom, movieInteraction, scrubbingMode, animationFrameId,
                            isPanning, isEraserArmed, staticCaches, screen, nextId, socket, glScene,
                            viewState, targetViewState, isAnimatingView, zoomSnapTimeout,
                            assetStore, projectStore, autosave, upload, startup >>
      ]_vars

\* a removal failed on an image layer whose cache was built, next to a text
\* layer, while the image was being dragged
C20_Witness ==
    /\ stepLog.op = "segmentationFailed"
    /\ Len(layers) = 2
    /\ \E i \in 1..Len(layers) : layers[i].type = "image" /\ layers[i].cache.isValid
    /\ movieInteraction.active


\* the saved layers a restore can rebuild from the store: the text layers, and
\* the image layers whose asset is in the store and whose proxy decodes
Restorable(store, savedLayers) ==
    SelectSeq(savedLayers,
              LAMBDA l : l.type = "text"
                         \/ (idbFindByHash(store, l.originalHash) # << >> /\ l.proxyCanvasDataURL.w > 0))

\* C21: a failure on one item of a batch is caught for that item only. Every
\* file of an upload that decodes is processed, whatever became of the files
\* before it: it is in the library afterwards, and on the canvas as the
\* background or as a new layer when it was uploaded as a layer; a restore
\* rebuilds every saved layer it can, in the saved order, and skips the others.
C21_BatchFailuresIsolated ==
    [][ /\ (stepLog'.op = "processFile" /\ Head(upload.files).w > 0) =>
            LET file == Head(upload.files) IN
            /\ idbFindByHash(assetStore', file.hash) # << >>
            /\ upload.intendedUse = "asset" =>
                  \/ canvasState'.backgroundHash = file.hash /\ canvasState.backgroundElement = 0
                  \/ /\ Len(layers') = Len(layers) + 1
                     /\ layers'[1].originalHash = file.hash
        /\ stepLog'.op = "processFile" =>
              upload'.files = Tail(upload.files)
        /\ (stepLog'.op = "restoreCurrentWork" /\ ~stepLog'.threw) =>
              IdsOf(layers') = IdsOf(Restorable(assetStore, autosave[1].layers))
      ]_vars


\* the load of a background failed in this step: the restore rejected, or the
\* sync of a peer's background reported the error
BackgroundLoadFailed ==
    \/ stepLog'.op \in {"restoreCurrentWork", "syncData"} /\ stepLog'.threw
    \/ stepLog'.op = "handleServerMessage" /\ stepLog'.toast = "Error: Could not sync background."

\* no background and no layers
SafeEmpty(cs, ls) == cs.backgroundElement = 0 /\ cs.backgroundHash = 0 /\ ls = << >>

\* C22: when the load of the background fails during a restore or the sync of
\* a peer's background, the canvas ends empty, with no background and no
\* layers, and never with a backgroundHash that is not the hash of the image
\* on the canvas.
C22_FailedBackgroundLoadLeavesEmpty ==
    [][BackgroundLoadFailed => SafeEmpty(canvasState', layers')]_vars


\* C23: a layer whose content has no area (empty text, a mipmap of no width)
\* gets from updateLayerCache a cache that is valid and empty, and the worker's
\* renderLayer raises no error on it either.
C23_DegenerateContentRendersEmpty ==
    [][ /\ \A i \in 1..Len(layers') :
              LayerData(layers'[i]).contentWidth <= 0 =>
                  LET cache == updateLayerCache(layers'[i]).cache IN
                  cache.isValid /\ cache.canvas.w = 0
        /\ stepLog'.op = "renderLayer" => ~stepLog'.threw ]_vars


\* C24: init comes to its end within the start-up budget: once the 8 s timer
\* has fired or the setup has completed or failed, the loading screen is
\* hidden, a timeout has shown its warning toast, and the input handlers are
\* installed so that the user can work.
C24_InitEndsWithinBudget ==
    startup.race # "pending" =>
        /\ ~startup.loadingScreen
        /\ startup.race = "timeout" =>
               startup.toast = "Loading took a while, but you can start working."
        /\ startup.listeners


\* the keys of the records of a store
KeysOf(store) == { store[i].id : i \in 1..Len(store) }

\* C25: a record leaves the assets store only when no saved project refers to
\* it: an asset with referenceCount > 0 is not removed by the deletion of the
\* asset, by the quota or by the dedupe of start-up, and a hidden asset goes
\* when a save releases its last reference.
C25_ReferencedAssetsStay ==
    [][\A i \in 1..Len(assetStore) :
          assetStore[i].id \notin KeysOf(assetStore') =>
              \/ assetStore[i].referenceCount = 0
              \/ /\ assetStore[i].isUserDeleted
                 /\ assetStore[i].referenceCount = 1
                 /\ stepLog'.op = "saveProjectToLibrary"]_vars


\* C26: the contentFrame of every image layer lies within mipmaps[0], and so
\* after every change of the raw content.
C26_ContentFrameWithinMipmap ==
    \A i \in 1..Len(layers) :
        layers[i].type = "image" =>
            /\ layers[i].contentFrame.x >= 0
            /\ layers[i].contentFrame.x + layers[i].contentFrame.width <= layers[i].mipW


\* the transform and effect fields a duplicate takes over from its source
CopiedFields == { "type", "originalHash", "size", "fontSize", "rot", "opacity", "shadow",
                  "border", "text", "mipW", "pix", "contentFrame" }

\* C27: duplicateLayer on a layer of the canvas, image or text, puts exactly
\* one new layer on top, with an id no layer had and the fields of its source,
\* and leaves the pixels of every other layer as they were.
C27_DuplicateAddsOneLayer ==
    [][/\ stepLog'.op = "duplicateLayer" =>
            /\ Len(layers') = Len(layers) + 1
            /\ \A i \in 1..Len(layers) : layers'[1].id # layers[i].id /\ layers'[i + 1] = layers[i]
            /\ \E i \in 1..Len(layers) : \A k \in CopiedFields : layers'[1][k] = layers[i][k]
       /\ stepLog'.op \in {"pointerDown", "pointerMove"} =>
            \A i \in 1..Len(layers') : \A j \in 1..Len(layers) :
                (layers'[i].id = layers[j].id /\ layers[j].id # activeLayerId) =>
                    layers'[i].pix = layers[j].pix]_vars


\* the transform, effect, lock and proportional fields of a layer
RestoredFields == { "id", "type", "x", "y", "size", "fontSize", "rot", "opacity", "shadow",
                    "border", "text", "isLocked", "propX", "propY", "propSize", "alignX", "alignY" }

\* the canvas shows the project of a saved state
SameProject(projectState, cs, ls) ==
    /\ cs.backgroundHash = projectState.backgroundHash
    /\ cs.backgroundElement # 0
    /\ cs.bgBrightness = projectState.bgBrightness
    /\ cs.projectRotation = projectState.projectRotation
    /\ cs.backgroundFlipX = projectState.backgroundFlipX
    /\ Len(ls) = Len(projectState.layers)
    /\ \A i \in 1..Len(ls) : \A k \in RestoredFields : ls[i][k] = projectState.layers[i][k]

\* the library holds, in a form that decodes, every asset the saved state names
AssetsAtHand(store, projectState) ==
    /\ \E i \in 1..Len(store) : store[i].hash = projectState.backgroundHash
    /\ \A i \in 1..Len(store) : store[i].hash = projectState.backgroundHash => store[i].w > 0
    /\ \A k \in 1..Len(projectState.layers) :
          projectState.layers[k].type = "image" =>
              \E i \in 1..Len(store) : store[i].hash = projectState.layers[k].originalHash

\* the autosaved state is restored in this step
Restoring == autosave # << >> /\ stepLog'.op = "restoreCurrentWork"

GestureFields == { "x", "y", "size", "fontSize", "rot", "pix", "propX", "propY", "propSize" }

\* C29: the pointer moves and the pointer-up of a drag, resize, rotate or erase
\* gesture change no layer but the one the gesture started on
\* (movieInteraction.layerId), also when the active layer has changed since.
C29_GestureKeepsToItsLayer ==
    [][(/\ stepLog'.op \in {"pointerMove", "pointerUp"}
        /\ movieInteraction.active
        /\ movieInteraction.type \in {"drag", "resize", "rotate", "erase"}) =>
           \A i \in 1..Len(layers) : \A j \in 1..Len(layers') :
               (layers'[j].id = layers[i].id /\ layers[i].id # movieInteraction.layerId) =>
                   \A k \in GestureFields : layers'[j][k] = layers[i][k]]_vars


\* C30: the actions of a peer are applied in the order the peer dispatched
\* them: when an action that targets a layer is applied, the LAYER_ADDED of
\* that layer, which the peer dispatched before it, is not still waiting to
\* be applied.
C30_PeerActionsAppliedInOrder ==
    [][\A k \in 1..Len(stepLog'.dispatched) :
          LET action == stepLog'.dispatched[k].action IN
          (/\ stepLog'.op = "handleServerMessage"
           /\ "layerId" \in DOMAIN action.payload) =>
              ~\E job \in pending : job.kind = "hydrate" /\ job.id = action.payload.layerId]_vars

\* the layers of ls that are the layer l
Copies(ls, l) == { i \in 1..Len(ls) : ls[i] = l }

\* C31: a drop in the layer palette only permutes the layer list: it keeps the
\* length of the list, and every layer of the list before the drop, image or
\* text, is in the list after it exactly once
C31_PaletteDropPermutes ==
    [][stepLog'.op = "paletteDrop" =>
          /\ Len(layers') = Len(layers)
          /\ \A i \in 1..Len(layers) : Cardinality(Copies(layers', layers[i])) = 1]_vars

\* the saved projects whose state refers to the hash
ReferringProjects(hash) == { r \in projectStore : hash \in HashesOf(r.projectState) }

\* C32: the referenceCount of every asset is the number of the saved projects
\* whose state refers to its hash, whatever projects were saved, updated,
\* loaded and deleted
C32_ReferenceCountIsProjectCount ==
    \A i \in 1..Len(assetStore) :
        assetStore[i].referenceCount = Cardinality(ReferringProjects(assetStore[i].hash))

\* C33: the assets store holds no two records of the same hash and kind,
\* however the calls of saveAssetToLibrary overlap
C33_OneRecordPerHashAndKind ==
    \A i, j \in 1..Len(assetStore) :
        assetStore[i].hash = assetStore[j].hash /\ assetStore[i].kind = assetStore[j].kind
            => i = j

\* C34: when the restores that ran side by side have all ended, the canvas
\* shows one of the restored projects: background, rotation, flip and layers
\* are those of the same saved state
C34_OverlappingRestoresGiveOneProject ==
    (Restores = {} /\ stepLog.op \in {"backgroundDecoded", "layersLoaded"}) =>
        \E k \in DOMAIN SyncedProjects : SameProject(SyncedProjects[k], canvasState, layers)

\* the place, size and rotation of the layer with the id, as a set of one
TransformOf(ls, id) ==
    { [x |-> ls[i].x, y |-> ls[i].y, size |-> ls[i].size, rot |-> ls[i].rot] :
        i \in { j \in 1..Len(ls) : ls[j].id = id } }

\* C35: a background removal whose mask keeps the bounds of the content
\* leaves the layer where it is when the removal completes: the place, the
\* size and the rotation the user gave it while the model ran stay in effect
C35_RemovalKeepsConcurrentTransform ==
    [][stepLog'.op = "segmentationDone" =>
          TransformOf(layers', CompletedJob.id) = TransformOf(layers, CompletedJob.id)]_vars

\* the layers of ls with the id, as a set of one
LayerOf(ls, id) == { ls[i] : i \in { j \in 1..Len(ls) : ls[j].id = id } }

\* C36: the pointer-up that ends an eraser stroke leaves the effect cache of
\* the layer not stale and raises its contentVersion by one at most; on a
\* layer whose pixels no earlier stroke has changed it raises it by one when
\* the stroke changed pixels and leaves it when the stroke changed none
C36_StrokeRaisesContentVersion ==
    [][(stepLog'.op = "pointerUp" /\ movieInteraction.type = "erase") =>
          \A l \in LayerOf(layers, movieInteraction.layerId) :
          \A l2 \in LayerOf(layers', movieInteraction.layerId) :
              /\ l2.cache.isValid => CacheCurrent(l2)
              /\ l2.contentVersion - l.contentVersion \in {0, 1}
              /\ l.contentVersion = 0 =>
                     l2.contentVersion = (IF l.pix > 0 THEN 1 ELSE 0)]_vars

\* C37: a reducer action that names one layer by id (property, shadow or
\* border change, transform, cache invalidation, optimization complete) leaves
\* every other layer, the order and the length of the list as they were, and
\* changes no layer when no layer has the id; UNDO and REDO, which the reducer
\* has no case for, leave the whole state as it was
C37_TargetedActionsKeepOtherLayers ==
    [][(stepLog'.op \in {"handleServerMessage", "keyDown"} /\ Len(stepLog'.dispatched) = 1) =>
        LET action == stepLog'.dispatched[1].action
            st == ReducerState(Cur)
            r == rootReducer(st, action)
        IN /\ action.type \in LayerMapTypes =>
                /\ Len(r.layers) = Len(layers)
                /\ IdsOf(r.layers) = IdsOf(layers)
                /\ \A i \in 1..Len(layers) :
                      layers[i].id # action.payload.layerId => r.layers[i] = layers[i]
                /\ IdsOf(layers') = IdsOf(layers)
                /\ \A i \in 1..Len(layers) :
                      layers[i].id # action.payload.layerId =>
                          WithoutCaches(<< layers'[i] >>) = WithoutCaches(<< layers[i] >>)
           /\ action.type \in {"UNDO", "REDO"} =>
                /\ r = st
                /\ WithoutCaches(layers') = WithoutCaches(layers)
                /\ activeLayerId' = activeLayerId
                /\ canvasState' = canvasState
    ]_vars

\* a peer's transform of one of two layers has been reduced
C37_Witness ==
    /\ stepLog.op = "handleServerMessage"
    /\ Len(stepLog.dispatched) = 1
    /\ stepLog.dispatched[1].action.type = "LAYER_TRANSFORMED"
    /\ Len(layers) = 2
    /\ \E i, j \in 1..2 :
          /\ layers[i].id = stepLog.dispatched[1].action.payload.layerId
          /\ layers[i].x = 60
          /\ j # i
          /\ layers[j].x # 60

\* what a call of animationRenderLoop by the browser leaves behind, with a
\* final frame drawn when finalFrame holds of the state it was called in
LoopStep(finalFrame) ==
    stepLog'.op = "animationRenderLoop" =>
        IF StillAnimating(Cur)
        THEN /\ animatedRender'.isAnimatingRender
             /\ animatedRender'.frames = 1
             /\ animatedRender'.lastFrame = "animated"
        ELSE /\ ~animatedRender'.isAnimatingRender
             /\ animatedRender'.frames = 0
             /\ IF finalFrame
                THEN animatedRender'.lastFrame = "final" /\ screen' = drawFrame(Cur).screen
                ELSE animatedRender'.lastFrame = "undrawn" /\ screen' = screen

\* C38 as stated: at most one frame of the entrance animation is requested at
\* a time, a next frame is requested only while some layer is younger than
\* the fade duration, and once none is the loop stops (isAnimatingRender =
\* false) after a final redraw, and it always comes to this
C38_LoopEndsWithFinalRedraw ==
    /\ [][ /\ animatedRender'.frames <= 1
           /\ animatedRender'.frames > animatedRender.frames => StillAnimating(Cur')
           /\ LoopStep(TRUE) ]_vars
    /\ (animatedRender.isAnimatingRender ~> ~animatedRender.isAnimatingRender)

\* C38: at most one frame of the entrance animation is requested at a time,
\* a next frame is requested only while some layer is younger than the fade
\* duration, and once none is the loop stops (isAnimatingRender = false),
\* after a final redraw unless a gesture on the canvas is under way, and it
\* always comes to this
C38_LoopIsSingleAndEnds ==
    /\ [][ /\ animatedRender'.frames <= 1
           /\ animatedRender'.frames > animatedRender.frames => StillAnimating(Cur')
           /\ LoopStep(~movieInteraction.active) ]_vars
    /\ (animatedRender.isAnimatingRender ~> ~animatedRender.isAnimatingRender)

\* the loop has ended while a layer was being dragged
C38_Witness ==
    /\ stepLog.op = "animationRenderLoop"
    /\ ~animatedRender.isAnimatingRender
    /\ animatedRender.lastFrame = "undrawn"
    /\ movieInteraction.active
    /\ layers # << >>

\* the timers of a callback that have not fired
PendingTimeouts(ts, callback) == { t \in ts.pending : t.callback = callback }

\* C39: at most one timer that hides the toast and at most one timer that
\* snaps the zoom are pending at any time; the timer of a toast never fires
\* after a later toast was shown, and the snap never fires after a later wheel
\* event than the one that set it
C39_OneTimerOfEachKind ==
    [][ /\ Cardinality(PendingTimeouts(timeouts', "hideToast")) <= 1
        /\ Cardinality(PendingTimeouts(timeouts', "resetView")) <= 1
        /\ stepLog'.op \in {"toastTimeout", "zoomSnap"} =>
              \A t \in timeouts.pending \ timeouts'.pending : ~t.superseded
        /\ stepLog'.op = "toast" => PendingTimeouts(timeouts', "hideToast") \subseteq
              { t \in timeouts'.pending : t.id = timeouts'.toastTimeout /\ ~t.superseded }
        /\ stepLog'.op = "wheel" => PendingTimeouts(timeouts', "resetView") \subseteq
              { t \in timeouts'.pending : t.id = zoomSnapTimeout' /\ ~t.superseded }
      ]_vars

\* a toast has taken the place of one whose timer was pending, while the
\* timer of the snap is pending too
C39_Witness ==
    /\ stepLog.op = "toast"
    /\ timeouts.cancelled
    /\ Cardinality(PendingTimeouts(timeouts, "hideToast")) = 1
    /\ Cardinality(PendingTimeouts(timeouts, "resetView")) = 1

\* the chain is not empty, its base fits maxDimension and no level is larger
\* than the one before it
ChainFromLargest(r) ==
    /\ Len(r.mipmaps) >= 1
    /\ Max(r.mipmaps[1].width, r.mipmaps[1].height) <= r.maxDimension
    /\ \A k \in 2..Len(r.mipmaps) :
          /\ r.mipmaps[k].width <= r.mipmaps[k - 1].width
          /\ r.mipmaps[k].height <= r.mipmaps[k - 1].height

\* C40 as stated: generateMipmaps always returns, with a chain that is not
\* empty, largest first, whose base has max(width, height) <= maxDimension,
\* in which each further level is half the one before it, and of which every
\* level is at least 32 pixels on its smaller dimension
C40_EveryLevelHalfAndAbove32 ==
    /\ [](mipmapRun.at = "returned" =>
            /\ ChainFromLargest(mipmapRun)
            /\ \A k \in 2..Len(mipmapRun.mipmaps) :
                  mipmapRun.mipmaps[k] =
                      [width |-> mipmapRun.mipmaps[k - 1].width \div 2,
                       height |-> mipmapRun.mipmaps[k - 1].height \div 2]
            /\ \A k \in 1..Len(mipmapRun.mipmaps) :
                  Min(mipmapRun.mipmaps[k].width, mipmapRun.mipmaps[k].height) >= 32)
    /\ (mipmapRun.at = "while" ~> mipmapRun.at = "returned")

\* C40: generateMipmaps always returns, with a chain that is not empty,
\* largest first, whose base has max(width, height) <= maxDimension and is
\* the picture scaled to fit; each further level has in either dimension the
\* larger of 32 and half of the one before it, rounded down, and follows a
\* level that is larger than 32 in both; so every level after the base is at
\* least 32 pixels in both dimensions
C40_ChainHalvesDownTo32 ==
    /\ [](mipmapRun.at = "returned" =>
            /\ ChainFromLargest(mipmapRun)
            /\ mipmapRun.mipmaps[1] =
                  [width |-> ScaledToFit(mipmapRun.sourceWidth, mipmapRun.sourceWidth,
                                         mipmapRun.sourceHeight, mipmapRun.maxDimension),
                   height |-> ScaledToFit(mipmapRun.sourceHeight, mipmapRun.sourceWidth,
                                          mipmapRun.sourceHeight, mipmapRun.maxDimension)]
            /\ \A k \in 2..Len(mipmapRun.mipmaps) :
                  /\ mipmapRun.mipmaps[k - 1].width > 32 /\ mipmapRun.mipmaps[k - 1].height > 32
                  /\ mipmapRun.mipmaps[k].width = Max(32, mipmapRun.mipmaps[k - 1].width \div 2)
                  /\ mipmapRun.mipmaps[k].height = Max(32, mipmapRun.mipmaps[k - 1].height \div 2)
                  /\ Min(mipmapRun.mipmaps[k].width, mipmapRun.mipmaps[k].height) >= 32
            /\ LET last == mipmapRun.mipmaps[Len(mipmapRun.mipmaps)] IN
               last.width <= 32 \/ last.height <= 32)
    /\ (mipmapRun.at = "while" ~> mipmapRun.at = "returned")

\* the chain of a picture of 100 by 40 has been returned: its second level is
\* held at 32 pixels of height
C40_Witness ==
    /\ mipmapRun.at = "returned"
    /\ mipmapRun.sourceWidth = 100 /\ mipmapRun.sourceHeight = 40
    /\ mipmapRun.maxDimension = MAX_PROXY_DIMENSION
    /\ mipmapRun.mipmaps = << [width |-> 100, height |-> 40], [width |-> 50, height |-> 32] >>
====
